---- MODULE Spec2Model ----
(***************************************************************************)
(* A model of the caribou widget toolkit: the Event/Subscriber broadcast   *)
(* mechanism, the reactive Property, the Layout container's hit-testing    *)
(* and hover bookkeeping, and the Button state machine.                    *)
(*                                                                         *)
(* Each component has its own group of variables and its own               *)
(* specification (SpecEvent, SpecProperty, SpecLayout, SpecButton); a      *)
(* specification leaves the other groups at their initial values.          *)
(***************************************************************************)
EXTENDS Integers, Sequences, FiniteSets, TLC

(***************************************************************************)
(* Bounds of the model.                                                    *)
(***************************************************************************)
\* Most subscribe calls made on the one modelled event.
MaxSubs == 3
\* Most listen calls made on the one modelled property.
MaxListens == 3
\* Property values are 0..MaxValue.
MaxValue == 2
\* Widgets that can be children of the modelled layout are 1..NumWidgets.
NumWidgets == 2
\* Scalar (f32) coordinates are modelled in fixed point, in units of 1/Scale.
Scale == 2
\* Pointer coordinates (i32) are 0..MaxCoord on both axes.
MaxCoord == 1
\* Child position components, in units of 1/Scale, are 0..MaxPos.
MaxPos == 1
\* Child size components are whole numbers 0..MaxSize (that is, 0..MaxSize * Scale
\* in units of 1/Scale).
MaxSize == 1
\* Most listeners subscribed to one of the button's events.
MaxButtonSubs == 2
\* Widgets known to the focus coordinator; the first NumButtons of them are Buttons.
NumTabWidgets == 3
NumButtons == 2
\* Longest manual tab order.
MaxManual == 3
\* Most listeners the application subscribes to one focus event of one widget.
MaxFocusSubs == 1
\* Batches allocated, operations created, and the longest list handed to consolidate.
MaxBatches == 4
MaxOps == 3
MaxList == 3
\* Operations held by all batches together.
MaxHeapOps == 6
\* on_draw listeners per child of a layout.
MaxDrawSubs == 2
\* Payload values per type, and views of the payload held at once.
MaxPayload == 2
MaxViews == 1
\* Child positions on either side of the origin, in units of 1/Scale, and pointer
\* coordinates on either side of the origin.
MaxOffset == 3
MaxPointer == 2
\* Worker threads of the dispatcher, and tasks the application pushes.
NumWorkers == 2
MaxTasks == 2
\* Tasks the application pushes in the runs that end in a shutdown.
MaxTasksShutdown == 1
\* Scheduler: instants of the clock, longest delay, and deployments.
MaxClock == 4
MaxDelay == 2
MaxDeploys == 2
\* Regions on a grid: largest origin coordinate and largest side.
MaxOrigin == 1
MaxExtent == 3

(***************************************************************************)
(* State.                                                                  *)
(***************************************************************************)
\* Event<F> (event.rs)
VARIABLES
    ev_listeners,   \* Event.listeners: sequence of subscribers [id, ret]
    ev_next,        \* identity of the next Rc allocated by Subscriber::new
    ev_results,     \* the Vec<R> returned by the last broadcast
    ev_calls,       \* ids of the listeners the last broadcast invoked, in order
    ev_op,          \* the last operation performed on the event
    ev_answer,      \* what the last operation answered if it was none_true, none_false,
                    \*   any_true or any_false: <<bool>>, else <<>>
    ev_sub_order,   \* history: the still-subscribed listeners in subscription order
    ev_unsubs       \* history: number of unsubscribe calls so far

ev_vars == <<ev_listeners, ev_next, ev_results, ev_calls, ev_op, ev_answer, ev_sub_order, ev_unsubs>>

\* Property<T> (property.rs)
VARIABLES
    pr_value,       \* Property.value
    pr_listeners,   \* Property.listeners: sequence of listener identities
    pr_next,        \* identity of the next Rc allocated by Listener::new
    pr_pc,          \* position inside set()/inform(): "idle" or "notify"
    pr_op,          \* the operation running or last run: "new", "set", "inform", ...
    pr_incoming,    \* the value handed to the listeners by the running operation
    pr_idx,         \* index of the next listener the running loop invokes
    pr_seen,        \* per invocation of the running/last operation:
                    \*   [id, arg: the value passed, got: what get() returned inside]
    pr_old          \* history: the value get() returned when set() was entered

pr_vars == <<pr_value, pr_listeners, pr_next, pr_pc, pr_op, pr_incoming, pr_idx, pr_seen, pr_old>>

\* Layout / LayoutData and the widgets it composes (widgets.rs, widget.rs)
VARIABLES
    ly_children,    \* WidgetInner.children of the layout: strong references, in order
    ly_held,        \* live widgets that are not children: held by a local variable
    ly_position,    \* WidgetInner.position of each widget (ScalarPair)
    ly_size,        \* WidgetInner.size of each widget (ScalarPair)
    ly_cur_hov,     \* LayoutData.cur_hov: weak references, in order
    ly_cur_pos,     \* LayoutData.cur_pos
    ly_panicked,    \* an unwrap() of None was reached: the thread has panicked
    ly_op,          \* the last operation: the event broadcast on the layout, or an edit
    ly_delivered,   \* broadcasts made on child widgets by the last layout handler,
                    \*   in order: [to, ev, arg]
    ly_hov_before,  \* history: cur_hov when the last layout handler was entered
    ly_unmoved      \* history: no on_mouse_move since Layout::create or the last
                    \*   on_mouse_leave

ly_vars == <<ly_children, ly_held, ly_position, ly_size, ly_cur_hov, ly_cur_pos,
             ly_panicked, ly_op, ly_delivered, ly_hov_before, ly_unmoved>>

\* Button / ButtonData and the focused-widget slot (widgets.rs, mod.rs)
VARIABLES
    bt_state,       \* ButtonData.state
    bt_focused,     \* ButtonData.focused
    bt_enabled,     \* WidgetInner.enabled of the button
    bt_style,       \* listeners of draw_normal, draw_hover, draw_pressed, draw_disabled:
                    \*   per event a sequence of "default" / "custom"
    bt_action,      \* number of listeners subscribed to the button's action event
    focused_component,  \* Instance.focused_component: None, Self (the button) or Other
    bt_op,          \* the last event handled by the button, or "edit"
    bt_prev,        \* history: the event handled before the last one
    bt_prev_enabled,    \* history: enabled as that earlier event was handled
    bt_arg,         \* the key of the last event if it was a key event: <<key>>, else <<>>
    bt_state_before,    \* history: ButtonData.state as the last handler began
    bt_slot_before, \* history: the focused-widget slot as the last handler began
    bt_broadcasts,  \* events the last handler broadcast on the button, in order
    bt_invoked,     \* listeners the last handler's broadcasts invoked: [ev, id], in order
    bt_redraws,     \* Caribou::request_redraw calls made by the last handler
    bt_returned     \* what the last handler returned: <<>>, <<batch>> or <<bool>>

bt_vars == <<bt_state, bt_focused, bt_enabled, bt_style, bt_action, focused_component,
             bt_op, bt_prev, bt_prev_enabled, bt_arg, bt_state_before,
             bt_slot_before, bt_broadcasts, bt_invoked, bt_redraws, bt_returned>>

\* Focus / tab-order coordinator: Instance and Caribou (mod.rs)
VARIABLES
    fc_alive,       \* the widgets some strong reference keeps alive
    fc_gain,        \* per widget the listeners of on_gain_focus, in subscription order
    fc_lose,        \* per widget the listeners of on_lose_focus, in subscription order
    fc_enabled,     \* per Button its enabled property
    fc_focused,     \* per Button ButtonData.focused
    manual_tab_order,   \* Instance.manual_tab_order
    auto_tab_order,     \* Instance.auto_tab_order
    fc_slot,        \* Instance.focused_component: None or a widget, possibly a dead one
    fc_op,          \* the last operation: "circulate_focus", "on_key_down", "on_key_up",
                    \*   "edit" or "new"
    fc_arg,         \* the key of the last key event: <<key>>, else <<>>
    fc_delivered,   \* broadcasts the last operation made on widgets: [to, ev, results]
    fc_returned,    \* what circulate_focus returned in the last operation: <<bool>>,
                    \*   or <<>> when it did not run
    fc_slot_before, \* history: the slot as the last operation began
    fc_manual_before, \* history: the manual tab order as the last circulate_focus began
    fc_run          \* history: [before, slot, returned] of each circulate_focus call since
                    \*   the last other operation, the latest NumTabWidgets of them

fc_vars == <<fc_alive, fc_gain, fc_lose, fc_enabled, fc_focused, manual_tab_order,
             auto_tab_order, fc_slot, fc_op, fc_arg, fc_delivered, fc_returned,
             fc_slot_before, fc_manual_before, fc_run>>

\* Batch as a shared handle (batch.rs: Arc<RwLock<Vec>>, draw.rs: Rc<RefCell<Vec>>)
VARIABLES
    ba_module,      \* which Batch the program uses: "batch" (batch.rs) or "draw" (draw.rs)
    ba_heap,        \* per allocated batch the operations behind its handle
    ba_count,       \* number of batches allocated so far
    ba_next_op,     \* the next operation created; every BatchOp created is distinct
    ba_op,          \* the last call: "new", "add_op", "append", "consolidate" or "fault"
    ba_inputs,      \* the batches handed to the last call, in order
    ba_result,      \* the batch the last call wrote: the receiver or the new batch
    ba_before       \* history: ba_heap as the last call began

ba_vars == <<ba_module, ba_heap, ba_count, ba_next_op, ba_op, ba_inputs, ba_result, ba_before>>

\* Layout drawing (widgets.rs); the children and their geometry are those of ly_vars
VARIABLES
    dr_listeners,   \* per widget the number of listeners subscribed to its on_draw
    dr_batch        \* the batch the last operation returned, if it was the layout's on_draw

dr_vars == <<dr_listeners, dr_batch>>

\* TextField / TextFieldData and the focused-widget slot (widgets.rs)
VARIABLES
    tf_enabled,     \* TextFieldData.enabled
    tf_focused,     \* TextFieldData.focused
    tf_widget_enabled,  \* WidgetInner.enabled of the text field
    tf_slot,        \* Instance.focused_component: None, Self (the text field) or Other
    tf_op,          \* the last event handled by the text field, or "edit"
    tf_slot_before, \* history: the focused-widget slot as the last handler began
    tf_broadcasts,  \* events the last handler broadcast on the text field's data
    tf_redraws,     \* Caribou::request_redraw calls made by the last handler
    tf_returned     \* what the last handler returned: <<>>, <<batch>> or <<bool>>

tf_vars == <<tf_enabled, tf_focused, tf_widget_enabled, tf_slot, tf_op, tf_slot_before,
             tf_broadcasts, tf_redraws, tf_returned>>

\* A widget's dynamic payload property, WidgetInner.data (property.rs)
VARIABLES
    dy_payload,     \* the payload: <<>> if none is installed, else <<[type, value]>>
    dy_mut,         \* a RefMut handed out by get_mut() is still held
    dy_views,       \* number of views (Ref) handed out by get_as() still held
    dy_op,          \* the last call on the property
    dy_asked,       \* the type asked of the last get_as: <<T>>, else <<>>
    dy_result,      \* what the last get_as returned: <<>> (empty) or <<value viewed>>
    dy_before,      \* history: the payload as the last call began
    dy_panicked     \* the last call panicked

dy_vars == <<dy_payload, dy_mut, dy_views, dy_op, dy_asked, dy_result, dy_before, dy_panicked>>

\* A layout nested as the only child of another layout (widgets.rs)
VARIABLES
    ne_position,    \* position of the inner layout (in the outer) and of its child (in it)
    ne_size,        \* their sizes
    ne_outer_hov,   \* LayoutData.cur_hov of the outer layout
    ne_inner_hov,   \* LayoutData.cur_hov of the inner layout
    ne_op,          \* the last event the outer layout handled, or "edit"
    ne_to_inner,    \* what the outer layout's last handler broadcast on the inner layout
    ne_to_child,    \* what the inner layout's listeners then broadcast on its child
    ne_outer_before,    \* history: the outer hover set as the last handler began
    ne_inner_before,    \* history: the inner hover set as the last handler began
    ne_fresh        \* history: the last pointer move was the one on which the pointer
                    \*   entered the inner layout, and no pointer leave came since

ne_vars == <<ne_position, ne_size, ne_outer_hov, ne_inner_hov, ne_op, ne_to_inner,
             ne_to_child, ne_outer_before, ne_inner_before, ne_fresh>>

\* circulate_focus step by step, with the RefCell borrows it holds (mod.rs)
VARIABLES
    re_pc,          \* "idle", "lose" (the holder's on_lose_focus is next), "gain" (a
                    \*   candidate's on_gain_focus is next) or "panicked"
    re_borrowed,    \* the cells of Instance that are mutably borrowed
    re_auto,        \* Instance.auto_tab_order
    re_slot,        \* Instance.focused_component
    re_initial,     \* initial_next of the running circulate_focus
    re_next,        \* next_index of the running circulate_focus
    re_on_gain,     \* per widget what its on_gain_focus listener does
    re_on_lose,     \* per widget what its on_lose_focus listener does
    re_attempt,     \* the last thing a listener or the application did: <<kind>>
    re_from,        \* history: re_pc as that was done
    re_returned     \* what the last circulate_focus returned: <<bool>>, else <<>>

re_vars == <<re_pc, re_borrowed, re_auto, re_slot, re_initial, re_next, re_on_gain,
             re_on_lose, re_attempt, re_from, re_returned>>

\* Dispatcher: the worker threads, the shared queue and its condition variable
\* (dispatch.rs)
VARIABLES
    di_deque,       \* Dispatcher.deque, under its mutex: the tasks queued, front first
    di_waiting,     \* the workers blocked in notifier.wait
    di_notifies,    \* push calls that released the mutex and have not yet notified
    di_pc,          \* per worker: "load", "pop", "wait", "woken", "run" or "done"
    di_task,        \* per worker the task it popped and runs
    di_states,      \* Dispatcher.states: per worker its AtomicBool
    di_synced,      \* per worker: it took the mutex after shutdown released it, so
                    \*   the stores of shutdown happen before its later loads
    di_shutdown,    \* the thread in shutdown: "idle", "store", "push" or "done"
    di_count,       \* that thread's loop counter
    di_budget,      \* number of tasks the application is going to push
    di_pushed,      \* number of tasks the application pushed
    di_popped,      \* history: the application's tasks popped, in order
    di_ran,         \* history: per task of the application how often it was run
    di_at_shutdown  \* history: <<di_pc>> as shutdown was called, <<>> before

di_vars == <<di_deque, di_waiting, di_notifies, di_pc, di_task, di_states, di_synced,
             di_shutdown, di_count, di_budget, di_pushed, di_popped, di_ran,
             di_at_shutdown>>

\* Scheduler: the list of delayed tasks and the thread that polls it (dispatch.rs)
VARIABLES
    sc_clock,       \* Instant::now()
    sc_tasks,       \* Scheduler.tasks, under its mutex: [id, deploy_instant, delay]
    sc_state,       \* Scheduler.state
    sc_pc,          \* the polling thread: "load", "traverse", "sleep" or "done"
    sc_i,           \* its index i into tasks (from 1)
    sc_deployed,    \* number of tasks deployed
    sc_pushed,      \* history: [task, at] for every Dispatcher::push of the thread
    sc_at_start,    \* history: ids in the list as the last traversal began
    sc_checked      \* history: per id <<instant>> of its is_ready in that traversal

sc_vars == <<sc_clock, sc_tasks, sc_state, sc_pc, sc_i, sc_deployed, sc_pushed,
             sc_at_start, sc_checked>>

\* Regions: two regions and the answer of Region::intersects (math.rs)
VARIABLES
    rg_a,           \* the region self
    rg_b,           \* the region passed
    rg_result       \* <<intersects(a, b), intersects(b, a)>> once called, <<>> before

rg_vars == <<rg_a, rg_b, rg_result>>

vars == <<ev_vars, pr_vars, ly_vars, bt_vars, fc_vars, ba_vars, dr_vars, tf_vars, dy_vars, ne_vars, re_vars, di_vars, sc_vars, rg_vars>>

\* Frame conditions: an operation on one component leaves the others alone.
EventOnly == UNCHANGED <<pr_vars, ly_vars, bt_vars, fc_vars, ba_vars, dr_vars, tf_vars, dy_vars, ne_vars, re_vars, di_vars, sc_vars, rg_vars>>
PropertyOnly == UNCHANGED <<ev_vars, ly_vars, bt_vars, fc_vars, ba_vars, dr_vars, tf_vars, dy_vars, ne_vars, re_vars, di_vars, sc_vars, rg_vars>>
LayoutOnly == UNCHANGED <<ev_vars, pr_vars, bt_vars, fc_vars, ba_vars, dr_listeners, tf_vars, dy_vars, ne_vars, re_vars, di_vars, sc_vars, rg_vars>>
ButtonOnly == UNCHANGED <<ev_vars, pr_vars, ly_vars, fc_vars, ba_vars, dr_vars, tf_vars, dy_vars, ne_vars, re_vars, di_vars, sc_vars, rg_vars>>
FocusOnly == UNCHANGED <<ev_vars, pr_vars, ly_vars, bt_vars, ba_vars, dr_vars, tf_vars, dy_vars, ne_vars, re_vars, di_vars, sc_vars, rg_vars>>
BatchOnly == UNCHANGED <<ev_vars, pr_vars, ly_vars, bt_vars, fc_vars, dr_vars, tf_vars, dy_vars, ne_vars, re_vars, di_vars, sc_vars, rg_vars>>
LayoutAndDraw == UNCHANGED <<ev_vars, pr_vars, bt_vars, fc_vars, ba_vars, tf_vars, dy_vars, ne_vars, re_vars, di_vars, sc_vars, rg_vars>>
TextFieldOnly == UNCHANGED <<ev_vars, pr_vars, ly_vars, bt_vars, fc_vars, ba_vars, dr_vars, dy_vars, ne_vars, re_vars, di_vars, sc_vars, rg_vars>>
PayloadOnly == UNCHANGED <<ev_vars, pr_vars, ly_vars, bt_vars, fc_vars, ba_vars, dr_vars, tf_vars, ne_vars, re_vars, di_vars, sc_vars, rg_vars>>
NestedOnly == UNCHANGED <<ev_vars, pr_vars, ly_vars, bt_vars, fc_vars, ba_vars, dr_vars, tf_vars, dy_vars, re_vars, di_vars, sc_vars, rg_vars>>
ReentrantOnly == UNCHANGED <<ev_vars, pr_vars, ly_vars, bt_vars, fc_vars, ba_vars, dr_vars, tf_vars, dy_vars, ne_vars, di_vars, sc_vars, rg_vars>>
DispatchOnly == UNCHANGED <<ev_vars, pr_vars, ly_vars, bt_vars, fc_vars, ba_vars, dr_vars, tf_vars, dy_vars, ne_vars, re_vars, sc_vars, rg_vars>>
SchedulerOnly == UNCHANGED <<ev_vars, pr_vars, ly_vars, bt_vars, fc_vars, ba_vars, dr_vars, tf_vars, dy_vars, ne_vars, re_vars, di_vars, rg_vars>>
RegionOnly == UNCHANGED <<ev_vars, pr_vars, ly_vars, bt_vars, fc_vars, ba_vars, dr_vars, tf_vars, dy_vars, ne_vars, re_vars, di_vars, sc_vars>>

(***************************************************************************)
(* Generic sequence helpers (Vec operations of the Rust standard library   *)
(* as the source uses them).                                               *)
(***************************************************************************)
Range(s) == {s[i] : i \in 1..Len(s)}

\* Iterator::position: the first index whose element satisfies the test, 0 for
\* None; the test is given as the set of elements that pass it.
Position(s, passing) ==
    IF \E i \in 1..Len(s) : s[i] \in passing
    THEN CHOOSE i \in 1..Len(s) : s[i] \in passing /\ \A j \in 1..(i - 1) : s[j] \notin passing
    ELSE 0

\* Vec::swap_remove: the element at i is replaced by the last element.
SwapRemove(s, i) ==
    [j \in 1..(Len(s) - 1) |-> IF j = i THEN s[Len(s)] ELSE s[j]]

\* Vec::retain; the test is given as the set of elements that pass it.
RetainAll(s, passing) == s
Retain(s, passing) == SelectSeq(s, LAMBDA item : item \in passing)

(***************************************************************************)
(* Event<F> / Subscriber<F>  (event.rs)                                    *)
(***************************************************************************)
\* A subscriber is the Rc identity of its boxed closure; the closure is modelled
\* by the value it returns.
Subscriber(id, ret) == [id |-> id, ret |-> ret]

EventInit ==
    /\ ev_listeners = <<>>
    /\ ev_next = 1
    /\ ev_results = <<>>
    /\ ev_calls = <<>>
    /\ ev_op = "new"
    /\ ev_answer = <<>>
    /\ ev_sub_order = <<>>
    /\ ev_unsubs = 0

\* Event::subscribe with the push done at the front (mutant).
SubscribeFront(ls, sub) == <<sub>> \o ls

\* Event::subscribe: listeners.borrow_mut().push(func.clone()).
SubscribePush(ls, sub) == Append(ls, sub)

\* Event::unsubscribe: position() of the token, then swap_remove.
UnsubscribeFrom(ls, token) ==
    LET index == Position(ls, {l \in Range(ls) : l.id = token})
    IN  IF index # 0 THEN SwapRemove(ls, index) ELSE ls

\* The loop of Event::broadcast from listener i on: every listener is invoked and
\* its result pushed; acc is [calls, results].
RECURSIVE BroadcastLoop(_, _, _)
BroadcastLoop(ls, i, acc) ==
    IF i > Len(ls) THEN acc
    ELSE BroadcastLoop(ls, i + 1,
            [calls   |-> Append(acc.calls, ls[i].id),
             results |-> Append(acc.results, ls[i].ret)])

\* Event::broadcast iterating the listeners from the back (mutant).
RECURSIVE BroadcastLoopRev(_, _, _)
BroadcastLoopRev(ls, i, acc) ==
    IF i < 1 THEN acc
    ELSE BroadcastLoopRev(ls, i - 1,
            [calls   |-> Append(acc.calls, ls[i].id),
             results |-> Append(acc.results, ls[i].ret)])

BroadcastRev(ls) == BroadcastLoopRev(ls, Len(ls), [calls |-> <<>>, results |-> <<>>])

\* Event::broadcast.
Broadcast(ls) == BroadcastLoop(ls, 1, [calls |-> <<>>, results |-> <<>>])

Subscribe(ret) ==
    /\ EventOnly
    /\ ev_next <= MaxSubs
    /\ ev_listeners' = SubscribePush(ev_listeners, Subscriber(ev_next, ret))
    /\ ev_sub_order' = Append(ev_sub_order, Subscriber(ev_next, ret))
    /\ ev_next' = ev_next + 1
    /\ ev_op' = "subscribe"
    /\ UNCHANGED <<ev_results, ev_calls, ev_answer, ev_unsubs>>

Unsubscribe(token) ==
    /\ EventOnly
    /\ ev_listeners' = UnsubscribeFrom(ev_listeners, token)
    /\ ev_sub_order' = SelectSeq(ev_sub_order, LAMBDA l : l.id # token)
    /\ ev_unsubs' = IF ev_unsubs < MaxSubs THEN ev_unsubs + 1 ELSE ev_unsubs
    /\ ev_op' = "unsubscribe"
    /\ UNCHANGED <<ev_next, ev_results, ev_calls, ev_answer>>

EventBroadcast ==
    /\ EventOnly
    /\ ev_calls' = Broadcast(ev_listeners).calls
    /\ ev_results' = Broadcast(ev_listeners).results
    /\ ev_op' = "broadcast"
    /\ ev_answer' = <<>>
    /\ UNCHANGED <<ev_listeners, ev_next, ev_sub_order, ev_unsubs>>

Queries == {"none_true", "none_false", "any_true", "any_false"}

\* The four queries with none_true and none_false, any_true and any_false
\* exchanged (mutant).
QueryAnswerExchanged(query, results) ==
    CASE query = "none_true" -> ~\E i \in 1..Len(results) : ~results[i]
      [] query = "none_false" -> ~\E i \in 1..Len(results) : results[i]
      [] query = "any_true" -> \E i \in 1..Len(results) : ~results[i]
      [] query = "any_false" -> \E i \in 1..Len(results) : results[i]

\* ZeroArgEvent<bool>::none_true, none_false, any_true, any_false: what each makes
\* of the results its broadcast returned.
QueryAnswer(query, results) ==
    CASE query = "none_true" -> ~\E i \in 1..Len(results) : results[i]
      [] query = "none_false" -> ~\E i \in 1..Len(results) : ~results[i]
      [] query = "any_true" -> \E i \in 1..Len(results) : results[i]
      [] query = "any_false" -> \E i \in 1..Len(results) : ~results[i]

\* One of the four queries is called on the event: a broadcast, then the answer.
EventQuery(query) ==
    /\ EventOnly
    /\ ev_calls' = Broadcast(ev_listeners).calls
    /\ ev_results' = Broadcast(ev_listeners).results
    /\ ev_answer' = <<QueryAnswer(query, Broadcast(ev_listeners).results)>>
    /\ ev_op' = query
    /\ UNCHANGED <<ev_listeners, ev_next, ev_sub_order, ev_unsubs>>

(***************************************************************************)
(* Property<T>  (property.rs)                                              *)
(***************************************************************************)
Values == 0..MaxValue

PropertyInit ==
    /\ pr_value \in Values
    /\ pr_listeners = <<>>
    /\ pr_next = 1
    /\ pr_pc = "idle"
    /\ pr_op = "new"
    /\ pr_incoming = 0
    /\ pr_idx = 1
    /\ pr_seen = <<>>
    /\ pr_old = pr_value

\* Property::get.
Get == pr_value

\* What set() does to the stored value before its listener loop, were it to
\* store first as OptionalProperty::put does (mutant).
SetEntryValueStoreFirst(cur, v) == v

\* What set() does to the stored value before its listener loop: nothing.
SetEntryValue(cur, v) == cur

\* Property::listen.
Listen ==
    /\ PropertyOnly
    /\ pr_pc = "idle"
    /\ pr_next <= MaxListens
    /\ pr_listeners' = Append(pr_listeners, pr_next)
    /\ pr_next' = pr_next + 1
    /\ pr_op' = "listen"
    /\ UNCHANGED <<pr_value, pr_pc, pr_incoming, pr_idx, pr_seen, pr_old>>

\* Property::unlisten: retain(|l| l != listener).
Unlisten(token) ==
    /\ PropertyOnly
    /\ pr_pc = "idle"
    /\ pr_listeners' = Retain(pr_listeners, Range(pr_listeners) \ {token})
    /\ pr_op' = "unlisten"
    /\ UNCHANGED <<pr_value, pr_next, pr_pc, pr_incoming, pr_idx, pr_seen, pr_old>>

\* Property::set, entry: the listener loop starts with the incoming value.
SetBegin(v) ==
    /\ PropertyOnly
    /\ pr_pc = "idle"
    /\ pr_old' = Get
    /\ pr_value' = SetEntryValue(pr_value, v)
    /\ pr_incoming' = v
    /\ pr_idx' = 1
    /\ pr_seen' = <<>>
    /\ pr_op' = "set"
    /\ pr_pc' = "notify"
    /\ UNCHANGED <<pr_listeners, pr_next>>

\* Property::inform, entry: the listener loop starts with the current value.
InformBegin ==
    /\ PropertyOnly
    /\ pr_pc = "idle"
    /\ pr_old' = Get
    /\ pr_incoming' = pr_value
    /\ pr_idx' = 1
    /\ pr_seen' = <<>>
    /\ pr_op' = "inform"
    /\ pr_pc' = "notify"
    /\ UNCHANGED <<pr_value, pr_listeners, pr_next>>

\* One iteration of the listener loop: listener.invoke(&value). The listener
\* records the value it is passed and what get() on the property returns.
Invoke ==
    /\ PropertyOnly
    /\ pr_pc = "notify"
    /\ pr_idx <= Len(pr_listeners)
    /\ pr_seen' = Append(pr_seen,
            [id |-> pr_listeners[pr_idx], arg |-> pr_incoming, got |-> Get])
    /\ pr_idx' = pr_idx + 1
    /\ UNCHANGED <<pr_value, pr_listeners, pr_next, pr_pc, pr_op, pr_incoming, pr_old>>

\* Property::set, after the loop: *self.value.borrow_mut() = value.
SetStore ==
    /\ PropertyOnly
    /\ pr_pc = "notify"
    /\ pr_op = "set"
    /\ pr_idx > Len(pr_listeners)
    /\ pr_value' = pr_incoming
    /\ pr_pc' = "idle"
    /\ UNCHANGED <<pr_listeners, pr_next, pr_op, pr_incoming, pr_idx, pr_seen, pr_old>>

\* Property::inform, after the loop: nothing is stored.
InformEnd ==
    /\ PropertyOnly
    /\ pr_pc = "notify"
    /\ pr_op = "inform"
    /\ pr_idx > Len(pr_listeners)
    /\ pr_pc' = "idle"
    /\ UNCHANGED <<pr_value, pr_listeners, pr_next, pr_op, pr_incoming, pr_idx, pr_seen, pr_old>>

(***************************************************************************)
(* Math primitives  (math.rs)                                              *)
(***************************************************************************)
\* Option::None for a widget handle (widgets are 1..NumWidgets).
None == 0

\* An event payload: <<>> for a zero-argument event, <<value>> for a payload.
NoArg == <<>>
Arg(value) == <<value>>

Pair(x, y) == [x |-> x, y |-> y]

\* IntPair::to_scalar: `as f32` on both components.
ToScalar(p) == Pair(p.x * Scale, p.y * Scale)

\* `as i32` rounding down (mutant).
AsI32Floor(v) == v \div Scale

\* `as i32` on an f32: the fractional part is discarded, rounding toward zero.
AsI32(v) == IF v >= 0 THEN v \div Scale ELSE 0 - ((0 - v) \div Scale)

\* ScalarPair::to_int.
ToInt(s) == Pair(AsI32(s.x), AsI32(s.y))

\* impl Sub for IntPair.
IntSub(a, b) == Pair(a.x - b.x, a.y - b.y)

\* Region::origin_size.
OriginSize(origin, size) == [origin |-> origin, size |-> size]

\* Region::contains with the max edge taken as inclusive (mutant).
ContainsClosed(region, point) ==
    /\ point.x >= region.origin.x /\ point.x <= region.origin.x + region.size.x
    /\ point.y >= region.origin.y /\ point.y <= region.origin.y + region.size.y

\* Region::contains.
Contains(region, point) ==
    /\ point.x >= region.origin.x /\ point.x < region.origin.x + region.size.x
    /\ point.y >= region.origin.y /\ point.y < region.origin.y + region.size.y

\* impl Add for ScalarPair.
ScalarAdd(a, b) == Pair(a.x + b.x, a.y + b.y)

\* Region::intersects.
Intersects(a, b) ==
    \/ Contains(a, b.origin)
    \/ Contains(a, ScalarAdd(b.origin, b.size))
    \/ Contains(b, a.origin)
    \/ Contains(b, ScalarAdd(a.origin, a.size))

\* The regions of the grid, with whole coordinates and positive sides.
GridRegions ==
    {OriginSize(Pair(x, y), Pair(w, h)) : x \in 0..MaxOrigin, y \in 0..MaxOrigin,
                                         w \in 1..MaxExtent, h \in 1..MaxExtent}

\* Two regions, intersects not yet called.
RegionInit ==
    /\ rg_a = OriginSize(Pair(0, 0), Pair(1, 1))
    /\ rg_b = OriginSize(Pair(0, 0), Pair(1, 1))
    /\ rg_result = <<>>

\* The same with the regions drawn from the grid.
RegionsInit ==
    /\ rg_a \in GridRegions
    /\ rg_b \in GridRegions
    /\ rg_result = <<>>

\* a.intersects(&b) and b.intersects(&a).
Intersect ==
    /\ RegionOnly
    /\ rg_result = <<>>
    /\ rg_result' = <<Intersects(rg_a, rg_b), Intersects(rg_b, rg_a)>>
    /\ UNCHANGED <<rg_a, rg_b>>

(***************************************************************************)
(* Widget handles  (widget.rs)                                             *)
(***************************************************************************)
Widgets == 1..NumWidgets

\* A widget lives while a strong reference to it exists: Rc<WidgetInner>.
Alive(children, held) == Range(children) \cup held

\* WidgetRefVec::clean that keeps every entry (mutant).
CleanNothing(refs, alive) == refs

\* WidgetRefVec::clean: retain(|item| item.upgrade().is_some()).
Clean(refs, alive) == Retain(refs, alive)

\* WidgetRefVec::contains_ref: Weak::ptr_eq against every entry.
ContainsRef(refs, widget) == \E i \in 1..Len(refs) : refs[i] = widget

\* WidgetAcquire::acquire: Weak::upgrade.
Acquire(ref, alive) == IF ref \in alive THEN ref ELSE None

(***************************************************************************)
(* Layout  (widgets.rs)                                                    *)
(***************************************************************************)
Delivery(to, ev, arg) == [to |-> to, ev |-> ev, arg |-> arg]

\* on_mouse_move, the branch taken for a contained child, entering every time (mutant).
HitBroadcastAlwaysEnter(cur_hov, child, child_pos) ==
    Delivery(child, "on_mouse_enter", NoArg)

\* on_mouse_move, the branch taken for a contained child, moving every time (mutant).
HitBroadcastAlwaysMove(cur_hov, child, child_pos) ==
    Delivery(child, "on_mouse_move", Arg(child_pos))

\* on_mouse_move, the branch taken for a contained child: enter when it is not in
\* cur_hov, else move with the child-local position.
HitBroadcast(cur_hov, child, child_pos) ==
    IF ~ContainsRef(cur_hov, child)
    THEN Delivery(child, "on_mouse_enter", NoArg)
    ELSE Delivery(child, "on_mouse_move", Arg(child_pos))

\* on_mouse_move, first loop, from child i on: acc is [new_hov, delivered].
RECURSIVE HitLoop(_, _, _, _, _, _, _)
HitLoop(children, position, size, cur_hov, pos, i, acc) ==
    IF i > Len(children) THEN acc
    ELSE LET child == children[i]
             child_pos == position[child]
             child_size == size[child]
         IN  IF Contains(OriginSize(child_pos, child_size), ToScalar(pos))
             THEN HitLoop(children, position, size, cur_hov, pos, i + 1,
                    [new_hov   |-> Append(acc.new_hov, child),
                     delivered |-> Append(acc.delivered,
                        HitBroadcast(cur_hov, child, IntSub(pos, ToInt(child_pos))))])
             ELSE HitLoop(children, position, size, cur_hov, pos, i + 1, acc)

\* on_mouse_move, second loop, from entry i of cur_hov on: a leave for every entry
\* that new_hov does not contain. acc is [delivered, panicked]; acquire().unwrap()
\* on a dead entry panics and ends the handler.
\* The second loop putting each leave before what was broadcast so far (mutant).
RECURSIVE LeaveLoopFirst(_, _, _, _, _)
LeaveLoopFirst(cur_hov, new_hov, alive, i, acc) ==
    IF i > Len(cur_hov) THEN acc
    ELSE IF ContainsRef(new_hov, cur_hov[i])
         THEN LeaveLoopFirst(cur_hov, new_hov, alive, i + 1, acc)
         ELSE IF Acquire(cur_hov[i], alive) = None
              THEN [acc EXCEPT !.panicked = TRUE]
              ELSE LeaveLoopFirst(cur_hov, new_hov, alive, i + 1,
                     [acc EXCEPT !.delivered =
                        <<Delivery(cur_hov[i], "on_mouse_leave", NoArg)>> \o @])

RECURSIVE LeaveLoop(_, _, _, _, _)
LeaveLoop(cur_hov, new_hov, alive, i, acc) ==
    IF i > Len(cur_hov) THEN acc
    ELSE IF ContainsRef(new_hov, cur_hov[i])
         THEN LeaveLoop(cur_hov, new_hov, alive, i + 1, acc)
         ELSE IF Acquire(cur_hov[i], alive) = None
              THEN [acc EXCEPT !.panicked = TRUE]
              ELSE LeaveLoop(cur_hov, new_hov, alive, i + 1,
                     [acc EXCEPT !.delivered =
                        Append(@, Delivery(cur_hov[i], "on_mouse_leave", NoArg))])

\* on_mouse_move, last statement, keeping the old entries as well (mutant).
HoverAfterMoveMerged(cur_hov, new_hov) == cur_hov \o new_hov

\* on_mouse_move, last statement: *cur_hov = new_hov.
HoverAfterMove(cur_hov, new_hov) == new_hov

\* The on_mouse_move listener of Layout::create: [cur_hov, delivered, panicked].
OnMouseMove(children, position, size, alive, hov, pos) ==
    LET cur_hov == Clean(hov, alive)
        hit == HitLoop(children, position, size, cur_hov, pos, 1,
                       [new_hov |-> <<>>, delivered |-> <<>>])
        left == LeaveLoop(cur_hov, hit.new_hov, alive, 1,
                       [delivered |-> hit.delivered, panicked |-> FALSE])
    IN  [cur_hov   |-> IF left.panicked THEN cur_hov
                       ELSE HoverAfterMove(cur_hov, hit.new_hov),
         delivered |-> left.delivered,
         panicked  |-> left.panicked]

\* The loop shared by on_mouse_leave, on_primary_down and on_primary_up, from
\* entry i of refs on: child.acquire().unwrap().<ev>.broadcast().
RECURSIVE ForwardLoop(_, _, _, _, _)
ForwardLoop(refs, alive, ev, i, acc) ==
    IF i > Len(refs) THEN acc
    ELSE IF Acquire(refs[i], alive) = None
         THEN [acc EXCEPT !.panicked = TRUE]
         ELSE ForwardLoop(refs, alive, ev, i + 1,
                [acc EXCEPT !.delivered = Append(@, Delivery(refs[i], ev, NoArg))])

\* on_mouse_leave, last statement left out (mutant).
HoverAfterLeaveKept(cur_hov) == cur_hov

\* on_mouse_leave, last statement: cur_hov.clear().
HoverAfterLeave(cur_hov) == <<>>

\* The on_mouse_leave listener of Layout::create.
OnMouseLeave(alive, hov) ==
    LET cur_hov == Clean(hov, alive)
        sent == ForwardLoop(cur_hov, alive, "on_mouse_leave", 1,
                       [delivered |-> <<>>, panicked |-> FALSE])
    IN  [cur_hov   |-> IF sent.panicked THEN cur_hov ELSE HoverAfterLeave(cur_hov),
         delivered |-> sent.delivered,
         panicked  |-> sent.panicked]

\* The widgets a button event is forwarded to, were it every child (mutant).
ButtonTargetsAllChildren(children, cur_hov) == children

\* The widgets a button event is forwarded to: `for child in cur_hov.iter()`.
ButtonTargets(children, cur_hov) == cur_hov

\* The on_primary_down / on_primary_up listeners of Layout::create (ev names which).
OnPrimary(children, alive, hov, ev) ==
    LET cur_hov == Clean(hov, alive)
        sent == ForwardLoop(ButtonTargets(children, cur_hov), alive, ev, 1,
                       [delivered |-> <<>>, panicked |-> FALSE])
    IN  [cur_hov   |-> cur_hov,
         delivered |-> sent.delivered,
         panicked  |-> sent.panicked]

IntPairs == {Pair(x, y) : x \in 0..MaxCoord, y \in 0..MaxCoord}
Positions == {Pair(x, y) : x \in 0..MaxPos, y \in 0..MaxPos}
Sizes == {Pair(x * Scale, y * Scale) : x \in 0..MaxSize, y \in 0..MaxSize}

\* Layout::create and create_widget for each widget that will be offered to it:
\* no children, empty hover set, default (zero) position and size.
LayoutInit ==
    /\ ly_children = <<>>
    /\ ly_held = Widgets
    /\ ly_position = [w \in Widgets |-> Pair(0, 0)]
    /\ ly_size = [w \in Widgets |-> Pair(0, 0)]
    /\ ly_cur_hov = <<>>
    /\ ly_cur_pos = Pair(0, 0)
    /\ ly_panicked = FALSE
    /\ ly_op = "new"
    /\ ly_delivered = <<>>
    /\ ly_hov_before = <<>>
    /\ ly_unmoved = TRUE

LyAlive == Alive(ly_children, ly_held)

\* Positions on either side of the origin, whole and fractional, and pointer
\* positions on either side of the origin.
OffsetPositions == {Pair(x, y) : x \in (0 - MaxOffset)..MaxOffset, y \in (0 - MaxOffset)..MaxOffset}
PointerPairs == {Pair(x, y) : x \in (0 - MaxPointer)..MaxPointer, y \in (0 - MaxPointer)..MaxPointer}

\* A layout after children.push(child), child.position.set(..) and
\* child.size.set(..) for its first child; no pointer event was handled yet.
PointerInit ==
    /\ ly_children = <<1>>
    /\ ly_held = Widgets \ {1}
    /\ \E p \in OffsetPositions : ly_position = [w \in Widgets |-> IF w = 1 THEN p ELSE Pair(0, 0)]
    /\ \E z \in Sizes : ly_size = [w \in Widgets |-> IF w = 1 THEN z ELSE Pair(0, 0)]
    /\ ly_cur_hov = <<>>
    /\ ly_cur_pos = Pair(0, 0)
    /\ ly_panicked = FALSE
    /\ ly_op = "edit"
    /\ ly_delivered = <<>>
    /\ ly_hov_before = <<>>
    /\ ly_unmoved = TRUE

\* The layout's on_mouse_move event is broadcast with pos.
MouseMove(pos) ==
    /\ LayoutOnly
    /\ ~ly_panicked
    /\ LET r == OnMouseMove(ly_children, ly_position, ly_size, LyAlive, ly_cur_hov, pos)
       IN  /\ ly_cur_hov' = r.cur_hov
           /\ ly_delivered' = r.delivered
           /\ ly_panicked' = r.panicked
    /\ ly_cur_pos' = pos
    /\ ly_op' = "on_mouse_move"
    /\ ly_hov_before' = ly_cur_hov
    /\ dr_batch' = <<>>
    /\ ly_unmoved' = FALSE
    /\ UNCHANGED <<ly_children, ly_held, ly_position, ly_size>>

\* The layout's on_mouse_leave event is broadcast.
MouseLeave ==
    /\ LayoutOnly
    /\ ~ly_panicked
    /\ LET r == OnMouseLeave(LyAlive, ly_cur_hov)
       IN  /\ ly_cur_hov' = r.cur_hov
           /\ ly_delivered' = r.delivered
           /\ ly_panicked' = r.panicked
    /\ ly_op' = "on_mouse_leave"
    /\ ly_hov_before' = ly_cur_hov
    /\ dr_batch' = <<>>
    /\ ly_unmoved' = TRUE
    /\ UNCHANGED <<ly_children, ly_held, ly_position, ly_size, ly_cur_pos>>

\* The layout's on_primary_down or on_primary_up event is broadcast.
Primary(ev) ==
    /\ LayoutOnly
    /\ ~ly_panicked
    /\ LET r == OnPrimary(ly_children, LyAlive, ly_cur_hov, ev)
       IN  /\ ly_cur_hov' = r.cur_hov
           /\ ly_delivered' = r.delivered
           /\ ly_panicked' = r.panicked
    /\ ly_op' = ev
    /\ ly_hov_before' = ly_cur_hov
    /\ dr_batch' = <<>>
    /\ UNCHANGED <<ly_children, ly_held, ly_position, ly_size, ly_cur_pos, ly_unmoved>>

\* The application edits the tree; no layout handler runs, so the record of the
\* last handler's broadcasts is dropped.
Edited ==
    /\ ly_op' = "edit"
    /\ ly_delivered' = <<>>
    /\ ly_hov_before' = <<>>
    /\ dr_batch' = <<>>
    /\ UNCHANGED <<ly_cur_hov, ly_cur_pos, ly_panicked, ly_unmoved>>

\* VecProperty::push on the layout's children: a held handle is moved into the list.
PushChild(w) ==
    /\ LayoutOnly
    /\ ~ly_panicked
    /\ w \in ly_held
    /\ ly_children' = Append(ly_children, w)
    /\ ly_held' = ly_held \ {w}
    /\ Edited
    /\ UNCHANGED <<ly_position, ly_size>>

\* A widget is destroyed with its last strong handle, and its properties with it.
Destroyed(ws) ==
    /\ ly_position' = [w \in Widgets |-> IF w \in ws THEN Pair(0, 0) ELSE ly_position[w]]
    /\ ly_size' = [w \in Widgets |-> IF w \in ws THEN Pair(0, 0) ELSE ly_size[w]]

\* VecProperty::remove on the layout's children. The caller either keeps the handle
\* it returns or drops it, which destroys the widget.
RemoveChild(index, keep) ==
    /\ LayoutOnly
    /\ ~ly_panicked
    /\ index \in 1..Len(ly_children)
    /\ ly_children' = [j \in 1..(Len(ly_children) - 1) |->
                          IF j < index THEN ly_children[j] ELSE ly_children[j + 1]]
    /\ IF keep
       THEN /\ ly_held' = ly_held \cup {ly_children[index]}
            /\ UNCHANGED <<ly_position, ly_size>>
       ELSE /\ UNCHANGED ly_held
            /\ Destroyed({ly_children[index]})
    /\ Edited

\* A handle held outside the layout is dropped: the widget is destroyed.
DropHandle(w) ==
    /\ LayoutOnly
    /\ ~ly_panicked
    /\ w \in ly_held
    /\ ly_held' = ly_held \ {w}
    /\ Destroyed({w})
    /\ Edited
    /\ UNCHANGED <<ly_children>>

\* position.set(p) on a live widget.
SetPosition(w, p) ==
    /\ LayoutOnly
    /\ ~ly_panicked
    /\ w \in LyAlive
    /\ ly_position[w] # p
    /\ ly_position' = [ly_position EXCEPT ![w] = p]
    /\ Edited
    /\ UNCHANGED <<ly_children, ly_held, ly_size>>

\* size.set(s) on a live widget.
SetSize(w, s) ==
    /\ LayoutOnly
    /\ ~ly_panicked
    /\ w \in LyAlive
    /\ ly_size[w] # s
    /\ ly_size' = [ly_size EXCEPT ![w] = s]
    /\ Edited
    /\ UNCHANGED <<ly_children, ly_held, ly_position>>

(***************************************************************************)
(* Draw batches  (batch.rs)                                                *)
(***************************************************************************)
\* Batch::new: a batch is its sequence of operations.
BatchNew == <<>>

\* Batch::add_op.
AddOp(batch, op) == Append(batch, op)

\* Batch::append: extend with a clone of the other batch's operations.
BatchAppendFront(batch, other) == other \o batch
BatchAppend(batch, other) == batch \o other

\* BatchConsolidation::consolidate, the loop from entry i on.
RECURSIVE ConsolidateLoop(_, _, _)
ConsolidateLoop(batches, i, batch) ==
    IF i > Len(batches) THEN batch
    ELSE ConsolidateLoop(batches, i + 1, BatchAppend(batch, batches[i]))

\* BatchConsolidation::consolidate for Vec<Batch>.
Consolidate(batches) == ConsolidateLoop(batches, 1, BatchNew)

(***************************************************************************)
(* Button  (widgets.rs)                                                    *)
(***************************************************************************)
ButtonStates == {"Normal", "Hover", "Pressed"}
StyleEvents == {"draw_normal", "draw_hover", "draw_pressed", "draw_disabled"}
Keys == {"Return", "Space", "NumpadEnter", "Escape"}

\* Values of the focused-widget slot as seen from the one modelled button: no
\* widget (None), the button itself, another widget.
Self == 1
Other == 2

\* button_default_style_on_draw: the batch a default-style listener of event ev
\* builds: the body, the focus ring when focused, the caption. The materials differ
\* from event to event, so an operation is tagged with its event.
DefaultStyleBatch(ev, focused) ==
    LET body == AddOp(BatchNew, [op |-> "Path", style |-> ev])
        ring == IF focused THEN AddOp(body, [op |-> "Path", style |-> "focus"]) ELSE body
    IN  AddOp(ring, [op |-> "Text", style |-> ev])

\* The batch listener number id of style event ev returns: the default style's, or
\* the one operation of a listener the application subscribed itself.
StyleResult(kind, ev, id, focused) ==
    IF kind = "default" THEN DefaultStyleBatch(ev, focused)
    ELSE AddOp(BatchNew, [op |-> "Pict", style |-> ev, by |-> id])

\* The subscribers of style event ev, each with the batch it returns now.
StyleListeners(style, ev, focused) ==
    [id \in 1..Len(style[ev]) |-> Subscriber(id, StyleResult(style[ev][id], ev, id, focused))]

\* The subscribers of the action event.
ActionListeners(n) == [id \in 1..n |-> Subscriber(id, "unit")]

\* Which listeners a broadcast of ev over ls invokes: [ev, id] per call.
Invoked(ev, ls) ==
    LET calls == Broadcast(ls).calls
    IN  [i \in 1..Len(calls) |-> [ev |-> ev, id |-> calls[i]]]

\* What a handler does besides updating ButtonData: the events it broadcasts on the
\* button with the listeners those invoke, its redraw requests, whether it sets the
\* focused-widget slot to the button, and what it returns.
Effects(state, focused, broadcasts, invoked, redraws, focus, returned) ==
    [state |-> state, focused |-> focused, broadcasts |-> broadcasts,
     invoked |-> invoked, redraws |-> redraws, focus |-> focus, returned |-> returned]

\* on_draw with the enabled test left out (mutant).
DrawEventIgnoringEnabled(state, enabled) ==
    CASE state = "Normal" -> "draw_normal"
      [] state = "Hover" -> "draw_hover"
      [] state = "Pressed" -> "draw_pressed"

\* on_draw: the style event it broadcasts.
DrawEvent(state, enabled) ==
    IF enabled
    THEN CASE state = "Normal" -> "draw_normal"
           [] state = "Hover" -> "draw_hover"
           [] state = "Pressed" -> "draw_pressed"
    ELSE "draw_disabled"

\* The on_draw listener of Button::create.
OnDraw(state, focused, enabled, style) ==
    LET ev == DrawEvent(state, enabled)
        ls == StyleListeners(style, ev, focused)
    IN  Effects(state, focused, <<ev>>, Invoked(ev, ls), 0, FALSE,
                <<Consolidate(Broadcast(ls).results)>>)

\* on_primary_down without the focus request (mutant).
OnPrimaryDownNoFocus(state, focused) ==
    Effects("Pressed", focused, <<>>, <<>>, 1, FALSE, <<>>)

\* The on_primary_down listener of Button::create.
OnPrimaryDown(state, focused) ==
    Effects("Pressed", focused, <<>>, <<>>, 1, TRUE, <<>>)

\* on_primary_up with the enabled test left out (mutant).
ActionOnPrimaryUpAlways(enabled) == TRUE

\* on_primary_up: whether it broadcasts action.
ActionOnPrimaryUp(enabled) == enabled

\* The on_primary_up listener of Button::create.
OnPrimaryUp(state, focused, enabled, action) ==
    IF ActionOnPrimaryUp(enabled)
    THEN Effects("Hover", focused, <<"action">>,
                 Invoked("action", ActionListeners(action)), 1, FALSE, <<>>)
    ELSE Effects("Hover", focused, <<>>, <<>>, 1, FALSE, <<>>)

\* on_mouse_enter that leaves a pressed button pressed (mutant).
OnMouseEnterUnlessPressed(state, focused) ==
    Effects(IF state = "Pressed" THEN state ELSE "Hover", focused, <<>>, <<>>, 1, FALSE, <<>>)

\* The on_mouse_enter listener of Button::create.
OnMouseEnter(state, focused) ==
    Effects("Hover", focused, <<>>, <<>>, 1, FALSE, <<>>)

\* The on_mouse_leave listener of Button::create.
OnButtonMouseLeave(state, focused) ==
    Effects("Normal", focused, <<>>, <<>>, 1, FALSE, <<>>)

\* The on_gain_focus listener of Button::create.
OnGainFocus(state, focused, enabled) ==
    IF enabled
    THEN Effects(state, TRUE, <<>>, <<>>, 1, FALSE, <<TRUE>>)
    ELSE Effects(state, focused, <<>>, <<>>, 0, FALSE, <<FALSE>>)

\* The on_lose_focus listener of Button::create.
OnLoseFocus(state, focused) ==
    Effects(state, FALSE, <<>>, <<>>, 1, FALSE, <<TRUE>>)

ActivationKeys == {"Return", "Space", "NumpadEnter"}

\* The on_key_down listener of Button::create.
OnKeyDown(state, focused, key) ==
    IF key \in ActivationKeys
    THEN Effects("Pressed", focused, <<>>, <<>>, 1, FALSE, <<>>)
    ELSE Effects(state, focused, <<>>, <<>>, 0, FALSE, <<>>)

\* on_key_up without the action broadcast (mutant).
OnKeyUpNoAction(state, focused, key, action) ==
    IF key \in ActivationKeys
    THEN Effects("Normal", focused, <<>>, <<>>, 1, FALSE, <<>>)
    ELSE Effects(state, focused, <<>>, <<>>, 0, FALSE, <<>>)

\* The on_key_up listener of Button::create.
OnKeyUp(state, focused, key, action) ==
    IF key \in ActivationKeys
    THEN Effects("Normal", focused, <<"action">>,
                 Invoked("action", ActionListeners(action)), 1, FALSE, <<>>)
    ELSE Effects(state, focused, <<>>, <<>>, 0, FALSE, <<>>)

\* Button::create: state Normal, not focused, enabled, no style and no action
\* listener; nothing holds the focus.
ButtonInit ==
    /\ bt_state = "Normal"
    /\ bt_focused = FALSE
    /\ bt_enabled = TRUE
    /\ bt_style = [ev \in StyleEvents |-> <<>>]
    /\ bt_action = 0
    /\ focused_component = None
    /\ bt_op = "new"
    /\ bt_prev = "new"
    /\ bt_prev_enabled = TRUE
    /\ bt_arg = NoArg
    /\ bt_state_before = "Normal"
    /\ bt_slot_before = None
    /\ bt_broadcasts = <<>>
    /\ bt_invoked = <<>>
    /\ bt_redraws = 0
    /\ bt_returned = <<>>

\* History: the last event the button handled, and enabled as it was handled; an
\* edit since then leaves both in bt_prev, bt_prev_enabled.
LastEvent == IF bt_op = "edit" THEN bt_prev ELSE bt_op
LastEnabled == IF bt_op = "edit" THEN bt_prev_enabled ELSE bt_enabled

\* Event ev of the button was broadcast and its listener of Button::create ran
\* with the effects e.
Handled(ev, arg, e) ==
    /\ ButtonOnly
    /\ bt_state' = e.state
    /\ bt_focused' = e.focused
    /\ focused_component' = IF e.focus THEN Self ELSE focused_component
    /\ bt_op' = ev
    /\ bt_prev' = LastEvent
    /\ bt_prev_enabled' = LastEnabled
    /\ bt_arg' = arg
    /\ bt_state_before' = bt_state
    /\ bt_slot_before' = focused_component
    /\ bt_broadcasts' = e.broadcasts
    /\ bt_invoked' = e.invoked
    /\ bt_redraws' = e.redraws
    /\ bt_returned' = e.returned
    /\ UNCHANGED <<bt_enabled, bt_style, bt_action>>

ButtonDraw == Handled("on_draw", NoArg, OnDraw(bt_state, bt_focused, bt_enabled, bt_style))

ButtonPrimaryDown == Handled("on_primary_down", NoArg, OnPrimaryDown(bt_state, bt_focused))

ButtonPrimaryUp ==
    Handled("on_primary_up", NoArg,
            OnPrimaryUp(bt_state, bt_focused, bt_enabled, bt_action))

ButtonMouseEnter == Handled("on_mouse_enter", NoArg, OnMouseEnter(bt_state, bt_focused))

ButtonMouseLeave == Handled("on_mouse_leave", NoArg, OnButtonMouseLeave(bt_state, bt_focused))

ButtonGainFocus == Handled("on_gain_focus", NoArg, OnGainFocus(bt_state, bt_focused, bt_enabled))

ButtonLoseFocus == Handled("on_lose_focus", NoArg, OnLoseFocus(bt_state, bt_focused))

ButtonKeyDown(key) == Handled("on_key_down", Arg(key), OnKeyDown(bt_state, bt_focused, key))

ButtonKeyUp(key) == Handled("on_key_up", Arg(key), OnKeyUp(bt_state, bt_focused, key, bt_action))

\* The application changes the button between events; the record of the last
\* handler is dropped.
ButtonEdited ==
    /\ bt_op' = "edit"
    /\ bt_prev' = LastEvent
    /\ bt_prev_enabled' = LastEnabled
    /\ bt_arg' = NoArg
    /\ bt_state_before' = bt_state
    /\ bt_slot_before' = None
    /\ bt_broadcasts' = <<>>
    /\ bt_invoked' = <<>>
    /\ bt_redraws' = 0
    /\ bt_returned' = <<>>
    /\ UNCHANGED <<bt_state, bt_focused>>

\* enabled.set(b).
SetEnabled(b) ==
    /\ ButtonOnly
    /\ bt_enabled # b
    /\ bt_enabled' = b
    /\ ButtonEdited
    /\ UNCHANGED <<bt_style, bt_action, focused_component>>

\* ButtonData::apply_default_style: one listener more on each of the four events.
ApplyDefaultStyle ==
    /\ ButtonOnly
    /\ \A ev \in StyleEvents : Len(bt_style[ev]) < MaxButtonSubs
    /\ bt_style' = [ev \in StyleEvents |-> Append(bt_style[ev], "default")]
    /\ ButtonEdited
    /\ UNCHANGED <<bt_enabled, bt_action, focused_component>>

\* The application subscribes a listener of its own to one style event.
SubscribeStyle(ev) ==
    /\ ButtonOnly
    /\ Len(bt_style[ev]) < MaxButtonSubs
    /\ \A other \in StyleEvents : "custom" \notin Range(bt_style[other])
    /\ bt_style' = [bt_style EXCEPT ![ev] = Append(@, "custom")]
    /\ ButtonEdited
    /\ UNCHANGED <<bt_enabled, bt_action, focused_component>>

\* The application subscribes a listener to the button's action event.
SubscribeAction ==
    /\ ButtonOnly
    /\ bt_action < MaxButtonSubs
    /\ bt_action' = bt_action + 1
    /\ ButtonEdited
    /\ UNCHANGED <<bt_enabled, bt_style, focused_component>>

\* Another widget takes the focused-widget slot (its own on_primary_down).
FocusOther ==
    /\ ButtonOnly
    /\ focused_component # Other
    /\ focused_component' = Other
    /\ ButtonEdited
    /\ UNCHANGED <<bt_enabled, bt_style, bt_action>>

(***************************************************************************)
(* Focus / tab-order coordinator  (mod.rs), with the focus listeners of    *)
(* Button (widgets.rs)                                                     *)
(***************************************************************************)
TabWidgets == 1..NumTabWidgets

\* The widgets made by Button::create; the others are plain widgets.
Buttons == 1..NumButtons

\* ZeroArgEvent<bool>::any_true over the results of the broadcast (used as a mutant
\* of none_false).
AnyTrue(results) == \E i \in 1..Len(results) : results[i]

\* ZeroArgEvent<bool>::none_false over the results of the broadcast.
NoneFalse(results) == ~\E i \in 1..Len(results) : ~results[i]

\* ZeroArgEvent<bool>::any_false over the results of the broadcast.
AnyFalse(results) == \E i \in 1..Len(results) : ~results[i]

\* on_gain_focus.broadcast() on a widget, from listener i on: each listener runs;
\* Button's sets the focused flag, an application listener answers with a constant.
RECURSIVE GainLoop(_, _, _, _, _)
GainLoop(ls, i, enabled, focused, results) ==
    IF i > Len(ls) THEN [results |-> results, focused |-> focused]
    ELSE IF ls[i] = "button"
         THEN LET e == OnGainFocus("Normal", focused, enabled)
              IN  GainLoop(ls, i + 1, enabled, e.focused, Append(results, e.returned[1]))
         ELSE GainLoop(ls, i + 1, enabled, focused, Append(results, ls[i] # "refuse"))

\* on_lose_focus.broadcast() on a widget, from listener i on.
RECURSIVE LoseLoop(_, _, _, _)
LoseLoop(ls, i, focused, results) ==
    IF i > Len(ls) THEN [results |-> results, focused |-> focused]
    ELSE IF ls[i] = "button"
         THEN LET e == OnLoseFocus("Normal", focused)
              IN  LoseLoop(ls, i + 1, e.focused, Append(results, e.returned[1]))
         ELSE LoseLoop(ls, i + 1, focused, Append(results, ls[i] # "veto"))

\* A broadcast of event ev on widget to, with the results of its listeners.
Asked(to, ev, results) == [to |-> to, ev |-> ev, results |-> results]

\* What circulate_focus leaves behind.
Circulated(manual, auto, slot, focused, delivered, returned) ==
    [manual |-> manual, auto |-> auto, slot |-> slot, focused |-> focused,
     delivered |-> delivered, returned |-> returned]

\* circulate_focus with the walk stopped after its first candidate (mutant).
NextIndexStuck(next_index, len) == next_index

\* The loop's step to the next candidate: (next_index + 1) % len, indices from 1.
NextIndex(next_index, len) == (next_index % len) + 1

\* The loop of circulate_focus: offer focus to tab_order[next_index], and walk on
\* until a candidate accepts or the walk is back at initial_next.
RECURSIVE Walk(_, _, _, _, _, _, _, _, _, _)
Walk(manual, auto, tab_order, initial_next, next_index, slot, gain, enabled, focused, delivered) ==
    LET next == tab_order[next_index]
        g == GainLoop(gain[next], 1, enabled[next], focused[next], <<>>)
        focused2 == [focused EXCEPT ![next] = g.focused]
        delivered2 == Append(delivered, Asked(next, "on_gain_focus", g.results))
        following == NextIndex(next_index, Len(tab_order))
    IN  IF NoneFalse(g.results)
        THEN Circulated(manual, auto, next, focused2, delivered2, TRUE)
        ELSE IF following = initial_next
             THEN Circulated(manual, auto, slot, focused2, delivered2, FALSE)
             ELSE Walk(manual, auto, tab_order, initial_next, following, slot, gain,
                       enabled, focused2, delivered2)

\* circulate_focus that prefers the automatic order (mutant).
ActiveOrderAutoFirst(manual, auto) == IF auto # <<>> THEN auto ELSE manual

\* The choice of the active tab order, after the purge.
ActiveOrder(manual, auto) == IF manual # <<>> THEN manual ELSE auto

\* circulate_focus that walks on after a veto (mutant).
VetoedNever(results) == FALSE

\* Whether the lose-focus broadcast on the focused widget stops circulate_focus.
Vetoed(results) == AnyFalse(results)

\* circulate_focus that starts at the focused widget's own index (mutant).
InitialNextSame(cur_index, len) == IF cur_index = None THEN 1 ELSE cur_index

\* cur_index.map(|x| (x + 1) % len).unwrap_or(0), indices from 1 and None for no index.
InitialNext(cur_index, len) == IF cur_index = None THEN 1 ELSE (cur_index % len) + 1

\* Caribou::circulate_focus.
CirculateFocus(manual0, auto0, alive, slot, gain, lose, enabled, focused) ==
    LET manual == IF manual0 # <<>> THEN Retain(manual0, alive) ELSE manual0
        auto == IF auto0 # <<>> THEN Retain(auto0, alive) ELSE auto0
        tab_order == ActiveOrder(manual, auto)
    IN  IF tab_order = <<>>
        THEN Circulated(manual, auto, None, focused, <<>>, TRUE)
        ELSE IF slot \in alive
             THEN LET l == LoseLoop(lose[slot], 1, focused[slot], <<>>)
                      focused1 == [focused EXCEPT ![slot] = l.focused]
                      delivered1 == <<Asked(slot, "on_lose_focus", l.results)>>
                      cur_index == Position(tab_order, {slot})
                      initial_next == InitialNext(cur_index, Len(tab_order))
                  IN  IF Vetoed(l.results)
                      THEN Circulated(manual, auto, slot, focused1, delivered1, FALSE)
                      ELSE Walk(manual, auto, tab_order, initial_next, initial_next,
                                slot, gain, enabled, focused1, delivered1)
             ELSE Walk(manual, auto, tab_order, 1, 1, slot, gain, enabled, focused, <<>>)

\* The key handlers of Caribou::launch forward a key to the widget the slot refers
\* to, if it is alive; the listeners of on_key_down and on_key_up return nothing.
ForwardKey(slot, alive, ev) ==
    IF slot \in alive THEN <<Asked(slot, ev, <<>>)>> ELSE <<>>

DispatchKeys == {"Tab", "Return"}

\* The application's own focus listeners answer with a constant.
GainKinds == {"accept", "refuse"}
LoseKinds == {"veto"}

\* The listeners of list ls the application subscribed.
AppListeners(ls) == Cardinality({i \in 1..Len(ls) : ls[i] # "button"})

\* The latest NumTabWidgets entries of run.
Latest(run) ==
    IF Len(run) <= NumTabWidgets THEN run
    ELSE SubSeq(run, Len(run) - NumTabWidgets + 1, Len(run))

\* Instance::new and the widgets of the application: the Buttons, registered in the
\* automatic order by Button::create as they were created, and the plain widgets.
FocusInit ==
    /\ fc_alive = TabWidgets
    /\ fc_gain = [w \in TabWidgets |-> IF w \in Buttons THEN <<"button">> ELSE <<>>]
    /\ fc_lose = [w \in TabWidgets |-> IF w \in Buttons THEN <<"button">> ELSE <<>>]
    /\ fc_enabled = [w \in TabWidgets |-> TRUE]
    /\ fc_focused = [w \in TabWidgets |-> FALSE]
    /\ manual_tab_order = <<>>
    /\ auto_tab_order = [i \in 1..NumButtons |-> i]
    /\ fc_slot = None
    /\ fc_op = "new"
    /\ fc_arg = NoArg
    /\ fc_delivered = <<>>
    /\ fc_returned = <<>>
    /\ fc_slot_before = None
    /\ fc_manual_before = <<>>
    /\ fc_run = <<>>

\* The live Buttons: the widgets that carry the listeners of Button::create.
LiveButtons == {w \in fc_alive : "button" \in Range(fc_gain[w])}

\* An application whose widgets are all Buttons, each registered in the automatic
\* order by Button::create as it was created.
AllButtonsInit ==
    /\ fc_alive = TabWidgets
    /\ fc_gain = [w \in TabWidgets |-> <<"button">>]
    /\ fc_lose = [w \in TabWidgets |-> <<"button">>]
    /\ fc_enabled = [w \in TabWidgets |-> TRUE]
    /\ fc_focused = [w \in TabWidgets |-> FALSE]
    /\ manual_tab_order = <<>>
    /\ auto_tab_order = [i \in 1..NumTabWidgets |-> i]
    /\ fc_slot = None
    /\ fc_op = "new"
    /\ fc_arg = NoArg
    /\ fc_delivered = <<>>
    /\ fc_returned = <<>>
    /\ fc_slot_before = None
    /\ fc_manual_before = <<>>
    /\ fc_run = <<>>

\* circulate_focus ran, as operation op, and left c behind.
Ran(op, arg, c) ==
    /\ FocusOnly
    /\ manual_tab_order' = c.manual
    /\ auto_tab_order' = c.auto
    /\ fc_slot' = c.slot
    /\ fc_focused' = c.focused
    /\ fc_op' = op
    /\ fc_arg' = arg
    /\ fc_delivered' = c.delivered
    /\ fc_returned' = <<c.returned>>
    /\ fc_slot_before' = fc_slot
    /\ fc_manual_before' = manual_tab_order
    /\ fc_run' = Latest(Append(fc_run, [before |-> fc_slot, slot |-> c.slot,
                                       returned |-> c.returned]))
    /\ UNCHANGED <<fc_alive, fc_gain, fc_lose, fc_enabled>>

\* The application calls Caribou::circulate_focus.
Circulate ==
    Ran("circulate_focus", NoArg,
        CirculateFocus(manual_tab_order, auto_tab_order, fc_alive, fc_slot, fc_gain,
                       fc_lose, fc_enabled, fc_focused))

\* A key event ev was forwarded by its process-wide handler.
Forwarded(ev, key) ==
    /\ FocusOnly
    /\ fc_op' = ev
    /\ fc_arg' = Arg(key)
    /\ fc_delivered' = ForwardKey(fc_slot, fc_alive, ev)
    /\ fc_returned' = <<>>
    /\ fc_slot_before' = fc_slot
    /\ fc_manual_before' = <<>>
    /\ fc_run' = <<>>
    /\ UNCHANGED <<fc_alive, fc_gain, fc_lose, fc_enabled, fc_focused,
                   manual_tab_order, auto_tab_order, fc_slot>>

\* The on_key_down listener without the test for Tab (mutant).
KeyDownForwardsTab(key) == Forwarded("on_key_down", key)

\* The on_key_down listener of Caribou::launch.
KeyDown(key) ==
    IF key = "Tab"
    THEN Ran("on_key_down", Arg(key),
             CirculateFocus(manual_tab_order, auto_tab_order, fc_alive, fc_slot, fc_gain,
                            fc_lose, fc_enabled, fc_focused))
    ELSE Forwarded("on_key_down", key)

\* The on_key_up listener of Caribou::launch.
KeyUp(key) == Forwarded("on_key_up", key)

\* The application or a widget changes the coordinator's world between operations;
\* the record of the last operation is dropped.
FocusEdited ==
    /\ fc_op' = "edit"
    /\ fc_arg' = NoArg
    /\ fc_delivered' = <<>>
    /\ fc_returned' = <<>>
    /\ fc_slot_before' = None
    /\ fc_manual_before' = <<>>
    /\ fc_run' = <<>>

\* Button w handles primary-down: it takes the slot.
Click(w) ==
    /\ FocusOnly
    /\ w \in LiveButtons
    /\ fc_slot # w
    /\ fc_slot' = IF OnPrimaryDown("Normal", fc_focused[w]).focus THEN w ELSE fc_slot
    /\ FocusEdited
    /\ UNCHANGED <<fc_alive, fc_gain, fc_lose, fc_enabled, fc_focused,
                   manual_tab_order, auto_tab_order>>

\* enabled.set(b) on Button w.
FocusSetEnabled(w, b) ==
    /\ FocusOnly
    /\ w \in Buttons \cap fc_alive
    /\ fc_enabled[w] # b
    /\ fc_enabled' = [fc_enabled EXCEPT ![w] = b]
    /\ FocusEdited
    /\ UNCHANGED <<fc_alive, fc_gain, fc_lose, fc_focused, manual_tab_order,
                   auto_tab_order, fc_slot>>

\* The last strong reference to widget w is dropped: its events, listeners and data
\* go with it; the weak references in the tab orders and the slot stay behind.
Destroy(w) ==
    /\ FocusOnly
    /\ w \in fc_alive
    /\ fc_alive' = fc_alive \ {w}
    /\ fc_gain' = [fc_gain EXCEPT ![w] = <<>>]
    /\ fc_lose' = [fc_lose EXCEPT ![w] = <<>>]
    /\ fc_enabled' = [fc_enabled EXCEPT ![w] = TRUE]
    /\ fc_focused' = [fc_focused EXCEPT ![w] = FALSE]
    /\ FocusEdited
    /\ UNCHANGED <<manual_tab_order, auto_tab_order, fc_slot>>

\* The application pushes widget w on the manual tab order.
PushManual(w) ==
    /\ FocusOnly
    /\ w \in fc_alive
    /\ w \notin Range(manual_tab_order)
    /\ Len(manual_tab_order) < MaxManual
    /\ manual_tab_order' = Append(manual_tab_order, w)
    /\ FocusEdited
    /\ UNCHANGED <<fc_alive, fc_gain, fc_lose, fc_enabled, fc_focused,
                   auto_tab_order, fc_slot>>

\* The application subscribes a listener to on_gain_focus of plain widget w.
SubscribeGain(w, kind) ==
    /\ FocusOnly
    /\ w \in fc_alive \ Buttons
    /\ AppListeners(fc_gain[w]) < MaxFocusSubs
    /\ fc_gain' = [fc_gain EXCEPT ![w] = SubscribePush(@, kind)]
    /\ FocusEdited
    /\ UNCHANGED <<fc_alive, fc_lose, fc_enabled, fc_focused, manual_tab_order,
                   auto_tab_order, fc_slot>>

\* The application subscribes a listener to on_lose_focus of widget w.
SubscribeLose(w, kind) ==
    /\ FocusOnly
    /\ w \in fc_alive
    /\ AppListeners(fc_lose[w]) < MaxFocusSubs
    /\ fc_lose' = [fc_lose EXCEPT ![w] = SubscribePush(@, kind)]
    /\ FocusEdited
    /\ UNCHANGED <<fc_alive, fc_gain, fc_enabled, fc_focused, manual_tab_order,
                   auto_tab_order, fc_slot>>

(***************************************************************************)
(* Layout drawing  (widgets.rs, Layout::create, on_draw)                   *)
(***************************************************************************)
\* The batch that listener k of widget w's on_draw returns.
Entry(w, k) == [of |-> w, listener |-> k]

\* Event::broadcast on a widget's on_draw: the listeners' batches, in listener order.
DrawBroadcast(w, listeners) == [k \in 1..listeners[w] |-> Entry(w, k)]

\* The transform built for a child, without the clip (mutant).
ChildTransformUnclipped(position, size) == [translate |-> position, clip_size |-> NoArg]

\* Transform { translate: *child.position.get(), clip_size: Some(*child.size.get()),
\* ..Transform::default() }.
ChildTransform(position, size) == [translate |-> position, clip_size |-> Arg(size)]

\* BatchOp::Batch { transform, batch }.
NestedBatch(transform, batch) == [transform |-> transform, batch |-> batch]

\* for entry in batches { batch.add_op(BatchOp::Batch { transform, batch: entry }) }
RECURSIVE NestLoop(_, _, _, _)
NestLoop(batches, k, transform, batch) ==
    IF k > Len(batches) THEN batch
    ELSE NestLoop(batches, k + 1, transform, AddOp(batch, NestedBatch(transform, batches[k])))

\* The layout's on_draw listener, from child i on: the batch built and the
\* broadcasts made.
RECURSIVE DrawLoop(_, _, _, _, _, _, _)
DrawLoop(children, i, position, size, listeners, batch, delivered) ==
    IF i > Len(children) THEN [batch |-> batch, delivered |-> delivered]
    ELSE LET child == children[i]
             transform == ChildTransform(position[child], size[child])
             batches == DrawBroadcast(child, listeners)
         IN  DrawLoop(children, i + 1, position, size, listeners,
                      NestLoop(batches, 1, transform, batch),
                      Append(delivered, Delivery(child, "on_draw", NoArg)))

\* The on_draw listener Layout::create subscribes.
OnLayoutDraw(children, position, size, listeners) ==
    DrawLoop(children, 1, position, size, listeners, BatchNew, <<>>)

\* create_widget subscribes nothing to on_draw.
DrawInit ==
    /\ dr_listeners = [w \in Widgets |-> 0]
    /\ dr_batch = <<>>

\* The application subscribes a listener to the on_draw of widget w.
SubscribeDraw(w) ==
    /\ LayoutAndDraw
    /\ ~ly_panicked
    /\ w \in LyAlive
    /\ dr_listeners[w] < MaxDrawSubs
    /\ dr_listeners' = [dr_listeners EXCEPT ![w] = @ + 1]
    /\ Edited
    /\ UNCHANGED <<ly_children, ly_held, ly_position, ly_size>>

\* The layout's on_draw event is broadcast.
LayoutDraw ==
    /\ LayoutAndDraw
    /\ ~ly_panicked
    /\ LET d == OnLayoutDraw(ly_children, ly_position, ly_size, dr_listeners)
       IN  /\ dr_batch' = d.batch
           /\ ly_delivered' = d.delivered
    /\ ly_op' = "on_draw"
    /\ ly_hov_before' = <<>>
    /\ UNCHANGED <<ly_children, ly_held, ly_position, ly_size, ly_cur_hov, ly_cur_pos,
                   ly_panicked, ly_unmoved, dr_listeners>>

(***************************************************************************)
(* TextField  (widgets.rs, TextField::create)                              *)
(***************************************************************************)
\* What a listener of the text field did: the new focused flag, the events it
\* broadcast, the redraw requests, whether it set the focused-widget slot to the
\* text field, and what it returned.
TextEffects(focused, broadcasts, redraws, focus, returned) ==
    [focused |-> focused, broadcasts |-> broadcasts, redraws |-> redraws,
     focus |-> focus, returned |-> returned]

\* on_draw: the consolidated batches of draw_focused or draw_unfocused, neither of
\* which has a listener after TextField::create.
OnTextDraw(focused) ==
    TextEffects(focused, <<IF focused THEN "draw_focused" ELSE "draw_unfocused">>, 0,
                FALSE, <<Consolidate(<<>>)>>)

\* on_primary_down without the test of enabled (mutant).
OnTextPrimaryDownAlways(enabled, focused) ==
    TextEffects(focused, <<>>, 0, TRUE, <<>>)

\* on_primary_down: if *data.enabled.get() the slot is set to the text field.
OnTextPrimaryDown(enabled, focused) ==
    TextEffects(focused, <<>>, 0, enabled, <<>>)

\* on_gain_focus.
OnTextGainFocus(enabled, focused) ==
    IF enabled THEN TextEffects(TRUE, <<>>, 1, FALSE, <<TRUE>>)
    ELSE TextEffects(focused, <<>>, 0, FALSE, <<FALSE>>)

\* on_lose_focus.
OnTextLoseFocus(focused) == TextEffects(FALSE, <<>>, 1, FALSE, <<TRUE>>)

\* TextField::create: enabled, not focused; Instance::new: the slot is empty.
TextFieldInit ==
    /\ tf_enabled = TRUE
    /\ tf_focused = FALSE
    /\ tf_widget_enabled = TRUE
    /\ tf_slot = None
    /\ tf_op = "new"
    /\ tf_slot_before = None
    /\ tf_broadcasts = <<>>
    /\ tf_redraws = 0
    /\ tf_returned = <<>>

\* Event ev of the text field was broadcast and its listener did e.
TextHandled(ev, e) ==
    /\ TextFieldOnly
    /\ tf_focused' = e.focused
    /\ tf_slot' = IF e.focus THEN Self ELSE tf_slot
    /\ tf_op' = ev
    /\ tf_slot_before' = tf_slot
    /\ tf_broadcasts' = e.broadcasts
    /\ tf_redraws' = e.redraws
    /\ tf_returned' = e.returned
    /\ UNCHANGED <<tf_enabled, tf_widget_enabled>>

TextDraw == TextHandled("on_draw", OnTextDraw(tf_focused))
TextPrimaryDown == TextHandled("on_primary_down", OnTextPrimaryDown(tf_enabled, tf_focused))
TextGainFocus == TextHandled("on_gain_focus", OnTextGainFocus(tf_enabled, tf_focused))
TextLoseFocus == TextHandled("on_lose_focus", OnTextLoseFocus(tf_focused))

\* The application changed a property; no listener of the text field ran.
TextEdited ==
    /\ TextFieldOnly
    /\ tf_op' = "edit"
    /\ tf_slot_before' = tf_slot
    /\ tf_broadcasts' = <<>>
    /\ tf_redraws' = 0
    /\ tf_returned' = <<>>

\* data.enabled.set(b).
TextSetEnabled(b) ==
    /\ TextEdited
    /\ tf_enabled # b
    /\ tf_enabled' = b
    /\ UNCHANGED <<tf_focused, tf_widget_enabled, tf_slot>>

\* comp.enabled.set(b): the enabled property every widget has.
TextSetWidgetEnabled(b) ==
    /\ TextEdited
    /\ tf_widget_enabled # b
    /\ tf_widget_enabled' = b
    /\ UNCHANGED <<tf_focused, tf_enabled, tf_slot>>

\* Another widget takes the slot, or the slot is reset.
TextFocusElsewhere(slot) ==
    /\ TextEdited
    /\ tf_slot # slot
    /\ tf_slot' = slot
    /\ UNCHANGED <<tf_focused, tf_enabled, tf_widget_enabled>>

(***************************************************************************)
(* DynamicProperty = OptionalProperty<Box<dyn Any>>  (property.rs)         *)
(***************************************************************************)
\* The concrete types a payload can have, and the payloads.
PayloadTypes == {"ButtonData", "TextFieldData", "LayoutData"}
Payloads == {[type |-> t, value |-> v] : t \in PayloadTypes, v \in 1..MaxPayload}
OptionalPayloads == {NoArg} \cup {Arg(p) : p \in Payloads}

\* RefCell::borrow panics while a mutable borrow is held.
CanBorrow(mut) == ~mut

\* RefCell::borrow_mut and RefCell::replace panic while any borrow is held.
CanBorrowMut(mut, views) == ~mut /\ views = 0

\* DynamicProperty::get_as::<T>: Ref::filter_map of the borrowed value through
\* a.as_ref()?.as_ref().downcast_ref::<T>(); Ok(val) => Some(val), Err(_) => None.
GetAs(payload, t) ==
    IF payload # NoArg /\ payload[1].type = t THEN Arg(payload[1].value) ELSE NoArg

\* create_widget: data is init_property(None); nothing is borrowed.
PayloadInit ==
    /\ dy_payload = NoArg
    /\ dy_mut = FALSE
    /\ dy_views = 0
    /\ dy_op = "new"
    /\ dy_asked = NoArg
    /\ dy_result = NoArg
    /\ dy_before = NoArg
    /\ dy_panicked = FALSE

\* A call that writes the payload: it needs the mutable borrow, and panics without
\* a change if it cannot have it.
Written(op, payload) ==
    /\ PayloadOnly
    /\ ~dy_panicked
    /\ dy_op' = op
    /\ dy_asked' = NoArg
    /\ dy_result' = NoArg
    /\ dy_before' = dy_payload
    /\ dy_panicked' = ~CanBorrowMut(dy_mut, dy_views)
    /\ dy_payload' = IF CanBorrowMut(dy_mut, dy_views) THEN payload ELSE dy_payload
    /\ UNCHANGED <<dy_mut, dy_views>>

\* Property::set, as in comp.data.set(Some(Box::new(..))).
PayloadSet(payload) == Written("set", payload)

\* OptionalProperty::put.
PayloadPut(p) == Written("put", Arg(p))

\* OptionalProperty::take.
PayloadTake == Written("take", NoArg)

\* OptionalProperty::clear.
PayloadClear == Written("clear", NoArg)

\* Property::get_mut: the caller keeps the RefMut.
PayloadGetMut ==
    /\ PayloadOnly
    /\ ~dy_panicked
    /\ dy_op' = "get_mut"
    /\ dy_asked' = NoArg
    /\ dy_result' = NoArg
    /\ dy_before' = dy_payload
    /\ dy_panicked' = ~CanBorrowMut(dy_mut, dy_views)
    /\ dy_mut' = CanBorrowMut(dy_mut, dy_views)
    /\ UNCHANGED <<dy_payload, dy_views>>

\* The caller drops the RefMut or a view.
PayloadDrop ==
    /\ PayloadOnly
    /\ ~dy_panicked
    /\ dy_mut \/ dy_views > 0
    /\ dy_op' = "drop"
    /\ dy_asked' = NoArg
    /\ dy_result' = NoArg
    /\ dy_before' = dy_payload
    /\ dy_mut' = FALSE
    /\ dy_views' = IF dy_mut THEN dy_views ELSE dy_views - 1
    /\ UNCHANGED <<dy_payload, dy_panicked>>

\* DynamicProperty::get_as::<t>; the caller keeps the view it is given, or drops it
\* at once.
PayloadGetAs(t, keep) ==
    /\ PayloadOnly
    /\ ~dy_panicked
    /\ dy_op' = "get_as"
    /\ dy_asked' = Arg(t)
    /\ dy_before' = dy_payload
    /\ dy_panicked' = ~CanBorrow(dy_mut)
    /\ dy_result' = IF CanBorrow(dy_mut) THEN GetAs(dy_payload, t) ELSE NoArg
    /\ dy_views' = IF CanBorrow(dy_mut) /\ GetAs(dy_payload, t) # NoArg /\ keep
                       /\ dy_views < MaxViews
                   THEN dy_views + 1 ELSE dy_views
    /\ UNCHANGED <<dy_payload, dy_mut>>

(***************************************************************************)
(* Nested layouts  (widgets.rs, Layout::create on both levels)             *)
(***************************************************************************)
\* The inner layout, the only child of the outer one, and the inner layout's only
\* child.
InnerLayout == 1
InnerChild == 2

\* What a listener of a layout leaves behind when it has nothing to do:
\* Layout::create subscribes no listener to on_mouse_enter.
Unheard(hov) == [cur_hov |-> hov, delivered |-> <<>>, panicked |-> FALSE]

\* The inner layout's listener for event d.ev, as Layout::create subscribed it.
InnerListener(d, position, size, hov) ==
    IF d.ev = "on_mouse_move"
    THEN OnMouseMove(<<InnerChild>>, position, size, Widgets, hov, d.arg[1])
    ELSE IF d.ev = "on_mouse_leave" THEN OnMouseLeave(Widgets, hov)
    ELSE IF d.ev \in {"on_primary_down", "on_primary_up"}
         THEN OnPrimary(<<InnerChild>>, Widgets, hov, d.ev)
    ELSE Unheard(hov)

\* The broadcasts of the outer layout's handler reach the inner layout one by one,
\* from broadcast i on; acc is [cur_hov, delivered] of the inner layout.
RECURSIVE InnerLoop(_, _, _, _, _)
InnerLoop(deliveries, i, position, size, acc) ==
    IF i > Len(deliveries) THEN acc
    ELSE LET r == InnerListener(deliveries[i], position, size, acc.cur_hov)
         IN  InnerLoop(deliveries, i + 1, position, size,
                       [cur_hov |-> r.cur_hov, delivered |-> acc.delivered \o r.delivered])

\* Both layouts and the inner child as created: zero position and size, empty
\* hover sets.
NestedInit ==
    /\ ne_position = [w \in Widgets |-> Pair(0, 0)]
    /\ ne_size = [w \in Widgets |-> Pair(0, 0)]
    /\ ne_outer_hov = <<>>
    /\ ne_inner_hov = <<>>
    /\ ne_op = "new"
    /\ ne_to_inner = <<>>
    /\ ne_to_child = <<>>
    /\ ne_outer_before = <<>>
    /\ ne_inner_before = <<>>
    /\ ne_fresh = FALSE

\* The outer layout handled event ev, its listener leaving r behind.
OuterHandled(ev, r, fresh) ==
    /\ NestedOnly
    /\ LET inner == InnerLoop(r.delivered, 1, ne_position, ne_size,
                              [cur_hov |-> ne_inner_hov, delivered |-> <<>>])
       IN  /\ ne_inner_hov' = inner.cur_hov
           /\ ne_to_child' = inner.delivered
    /\ ne_outer_hov' = r.cur_hov
    /\ ne_to_inner' = r.delivered
    /\ ne_op' = ev
    /\ ne_outer_before' = ne_outer_hov
    /\ ne_inner_before' = ne_inner_hov
    /\ ne_fresh' = fresh
    /\ UNCHANGED <<ne_position, ne_size>>

\* The outer layout's on_mouse_move is broadcast with pos.
NestedMove(pos) ==
    LET r == OnMouseMove(<<InnerLayout>>, ne_position, ne_size, Widgets, ne_outer_hov, pos)
    IN  OuterHandled("on_mouse_move", r,
                     ~ContainsRef(ne_outer_hov, InnerLayout) /\ ContainsRef(r.cur_hov, InnerLayout))

\* The outer layout's on_mouse_leave is broadcast.
NestedLeave == OuterHandled("on_mouse_leave", OnMouseLeave(Widgets, ne_outer_hov), FALSE)

\* The outer layout's on_primary_down or on_primary_up is broadcast.
NestedPrimary(ev) ==
    OuterHandled(ev, OnPrimary(<<InnerLayout>>, Widgets, ne_outer_hov, ev), ne_fresh)

\* The application changed a position or a size; no listener of a layout ran.
NestedEdited ==
    /\ NestedOnly
    /\ ne_op' = "edit"
    /\ ne_to_inner' = <<>>
    /\ ne_to_child' = <<>>
    /\ ne_outer_before' = ne_outer_hov
    /\ ne_inner_before' = ne_inner_hov
    /\ UNCHANGED <<ne_outer_hov, ne_inner_hov, ne_fresh>>

\* position.set(p) on the inner layout or on its child.
NestedSetPosition(w, p) ==
    /\ NestedEdited
    /\ ne_position[w] # p
    /\ ne_position' = [ne_position EXCEPT ![w] = p]
    /\ UNCHANGED ne_size

\* size.set(z) on the inner layout or on its child.
NestedSetSize(w, z) ==
    /\ NestedEdited
    /\ ne_size[w] # z
    /\ ne_size' = [ne_size EXCEPT ![w] = z]
    /\ UNCHANGED ne_position

(***************************************************************************)
(* circulate_focus and the borrows it holds  (mod.rs)                      *)
(***************************************************************************)
\* The RefCells of Instance: the two tab orders and the value of the
\* focused_component property.
Cells == {"manual_tab_order", "auto_tab_order", "focused_component"}

\* The borrows circulate_focus would hold with the slot read by copy (mutant).
HeldByCirculateListsOnly == {"manual_tab_order", "auto_tab_order"}

\* The borrows circulate_focus holds from `let mut cur_ref = ..get_mut()` to its
\* return: manual.borrow_mut(), auto.borrow_mut(), focused_component.get_mut().
HeldByCirculate == {"manual_tab_order", "auto_tab_order", "focused_component"}

\* What a focus listener does before it returns: nothing but accept or refuse, or
\* one call into Instance.
QuietKinds == {"accept", "refuse"}
CallingKinds == {"read_slot", "set_slot", "register", "circulate"}

\* The cell whose borrow the call asks for first: focused_component.get() and
\* .set() borrow the property's value, register_auto_tab_order borrows
\* auto_tab_order mutably, circulate_focus starts with manual_tab_order.borrow_mut().
CellOf(kind) ==
    IF kind \in {"read_slot", "set_slot"} THEN "focused_component"
    ELSE IF kind = "register" THEN "auto_tab_order"
    ELSE "manual_tab_order"

\* RefCell::borrow / borrow_mut panic (BorrowError / BorrowMutError) when the cell
\* is mutably borrowed.
BorrowFails(kind, borrowed) == kind \in CallingKinds /\ CellOf(kind) \in borrowed

\* Instance::new: empty tab orders, default (dangling) slot; widgets without focus
\* listeners of their own are given accepting ones.
ReentrantInit ==
    /\ re_pc = "idle"
    /\ re_borrowed = {}
    /\ re_auto = <<>>
    /\ re_slot = None
    /\ re_initial = 0
    /\ re_next = 0
    /\ re_on_gain = [w \in Widgets |-> "accept"]
    /\ re_on_lose = [w \in Widgets |-> "accept"]
    /\ re_attempt = <<>>
    /\ re_from = "idle"
    /\ re_returned = <<>>

\* The application subscribes the on_gain_focus listener of widget w.
ListenGain(w, kind) ==
    /\ ReentrantOnly
    /\ re_pc = "idle"
    /\ re_on_gain[w] # kind
    /\ re_on_gain' = [re_on_gain EXCEPT ![w] = kind]
    /\ re_attempt' = <<>>
    /\ re_from' = "idle"
    /\ re_returned' = <<>>
    /\ UNCHANGED <<re_pc, re_borrowed, re_auto, re_slot, re_initial, re_next, re_on_lose>>

\* The application subscribes the on_lose_focus listener of widget w.
ListenLose(w, kind) ==
    /\ ReentrantOnly
    /\ re_pc = "idle"
    /\ re_on_lose[w] # kind
    /\ re_on_lose' = [re_on_lose EXCEPT ![w] = kind]
    /\ re_attempt' = <<>>
    /\ re_from' = "idle"
    /\ re_returned' = <<>>
    /\ UNCHANGED <<re_pc, re_borrowed, re_auto, re_slot, re_initial, re_next, re_on_gain>>

\* Outside circulate_focus the application reads the slot, sets it to widget w (as
\* a Button's on_primary_down does), or registers w in the automatic order (as
\* Button::create does): no cell is borrowed, the call completes.
Outside(kind, w) ==
    /\ ReentrantOnly
    /\ re_pc = "idle"
    /\ kind \in {"read_slot", "set_slot", "register"}
    /\ ~BorrowFails(kind, re_borrowed)
    /\ kind = "register" => w \notin Range(re_auto)
    /\ re_auto' = IF kind = "register" THEN Append(re_auto, w) ELSE re_auto
    /\ re_slot' = IF kind = "set_slot" THEN w ELSE re_slot
    /\ re_attempt' = <<kind>>
    /\ re_from' = "idle"
    /\ re_returned' = <<>>
    /\ UNCHANGED <<re_pc, re_borrowed, re_initial, re_next, re_on_gain, re_on_lose>>

\* circulate_focus up to its first broadcast: both lists are borrowed (every widget
\* is alive, retain removes nothing; the manual order is empty, so the automatic
\* order is used); with an empty order the slot is reset and the call returns; else
\* the slot is borrowed, and the holder is asked to lose focus or, with no live
\* holder, the walk starts at index 0.
CirculateBegin ==
    /\ ReentrantOnly
    /\ re_pc = "idle"
    /\ re_attempt' = <<"circulate">>
    /\ re_from' = "idle"
    /\ IF re_auto = <<>>
       THEN /\ re_slot' = None
            /\ re_returned' = <<TRUE>>
            /\ UNCHANGED <<re_pc, re_borrowed, re_initial, re_next>>
       ELSE /\ re_borrowed' = HeldByCirculate
            /\ re_returned' = <<>>
            /\ re_pc' = IF re_slot # None THEN "lose" ELSE "gain"
            /\ re_initial' = 1
            /\ re_next' = 1
            /\ UNCHANGED re_slot
    /\ UNCHANGED <<re_auto, re_on_gain, re_on_lose>>

\* circulate_focus returns: its guards are dropped.
Return(slot, returned) ==
    /\ re_pc' = "idle"
    /\ re_borrowed' = {}
    /\ re_slot' = slot
    /\ re_returned' = <<returned>>
    /\ re_initial' = 0
    /\ re_next' = 0

\* A listener's call into Instance met a borrowed cell: the thread panics.
Panic ==
    /\ re_pc' = "panicked"
    /\ re_returned' = <<>>
    /\ UNCHANGED <<re_borrowed, re_slot, re_initial, re_next>>

\* cur_now.on_lose_focus.any_false(): the holder's listener runs.
LoseStep ==
    /\ ReentrantOnly
    /\ re_pc = "lose"
    /\ LET kind == re_on_lose[re_slot]
           cur_index == Position(re_auto, {re_slot})
       IN  /\ re_attempt' = <<kind>>
           /\ IF BorrowFails(kind, re_borrowed) THEN Panic
              ELSE IF kind = "refuse" THEN Return(re_slot, FALSE)
              ELSE /\ re_pc' = "gain"
                   /\ re_initial' = InitialNext(cur_index, Len(re_auto))
                   /\ re_next' = InitialNext(cur_index, Len(re_auto))
                   /\ UNCHANGED <<re_borrowed, re_slot, re_returned>>
    /\ re_from' = "lose"
    /\ UNCHANGED <<re_auto, re_on_gain, re_on_lose>>

\* next.on_gain_focus.none_false(): the candidate's listener runs; on acceptance
\* the slot is assigned, else the walk goes on until it is back at initial_next.
GainStep ==
    /\ ReentrantOnly
    /\ re_pc = "gain"
    /\ LET next == re_auto[re_next]
           kind == re_on_gain[next]
       IN  /\ re_attempt' = <<kind>>
           /\ IF BorrowFails(kind, re_borrowed) THEN Panic
              ELSE IF kind # "refuse" THEN Return(next, TRUE)
              ELSE IF NextIndex(re_next, Len(re_auto)) = re_initial
                   THEN Return(re_slot, FALSE)
                   ELSE /\ re_next' = NextIndex(re_next, Len(re_auto))
                        /\ UNCHANGED <<re_pc, re_borrowed, re_slot, re_initial, re_returned>>
    /\ re_from' = "gain"
    /\ UNCHANGED <<re_auto, re_on_gain, re_on_lose>>

(***************************************************************************)
(* Dispatcher  (dispatch.rs)                                               *)
(***************************************************************************)
Workers == 1..NumWorkers

\* The tasks the application pushes, numbered in the order of their push_back, and
\* the empty task `|| {}` that shutdown pushes.
Tasks == 1..MaxTasks
NoOp == 0

\* VecDeque::pop_back in place of pop_front (mutant).
PopBack(deque) == [task |-> deque[Len(deque)], rest |-> SubSeq(deque, 1, Len(deque) - 1)]

\* VecDeque::pop_front.
PopFront(deque) == [task |-> Head(deque), rest |-> Tail(deque)]

\* notify_one that wakes nobody (mutant).
NotifyNobody(waiting) == {{}}

\* Condvar::notify_one: the sets of workers it may wake: one of the blocked
\* workers, nobody if none is blocked.
NotifyOne(waiting) == IF waiting = {} THEN {{}} ELSE {{w} : w \in waiting}

\* shutdown pushing one empty task too few (mutant).
ShutdownPushesShort == NumWorkers - 1

\* shutdown: `for _ in 0..states.len()` pushes one empty task per worker.
ShutdownPushes == NumWorkers

\* AtomicBool::load(Relaxed) by worker w: the value stored last if the store
\* happens before the load, else that value or the initial true.
Loads(w) == IF di_synced[w] THEN {di_states[w]} ELSE {di_states[w], TRUE}

\* Dispatcher::launch: empty queue, every worker spawned with its state true and
\* about to test it.
Launched ==
    /\ di_deque = <<>>
    /\ di_waiting = {}
    /\ di_notifies = 0
    /\ di_pc = [w \in Workers |-> "load"]
    /\ di_task = [w \in Workers |-> NoOp]
    /\ di_states = [w \in Workers |-> TRUE]
    /\ di_synced = [w \in Workers |-> FALSE]
    /\ di_shutdown = "idle"
    /\ di_count = 0
    /\ di_pushed = 0
    /\ di_popped = <<>>
    /\ di_ran = [t \in Tasks |-> 0]
    /\ di_at_shutdown = <<>>

DispatcherInit == Launched /\ di_budget = MaxTasks

DispatcherShutdownInit == Launched /\ di_budget = MaxTasksShutdown

\* Worker w tests `while state.load(Relaxed)`.
WorkerLoad(w) ==
    /\ DispatchOnly
    /\ di_pc[w] = "load"
    /\ \E value \in Loads(w) : di_pc' = [di_pc EXCEPT ![w] = IF value THEN "pop" ELSE "done"]
    /\ UNCHANGED di_budget
    /\ UNCHANGED <<di_deque, di_waiting, di_notifies, di_task, di_states, di_synced,
                   di_shutdown, di_count, di_pushed, di_popped, di_ran, di_at_shutdown>>

\* Worker w in pop holds the mutex (on entry, or reacquired by wait): with the queue
\* empty it blocks in notifier.wait, which releases the mutex; else it pops the
\* front, notifies one worker if tasks are left, and returns, releasing the mutex.
WorkerPop(w) ==
    /\ DispatchOnly
    /\ di_pc[w] \in {"pop", "woken"}
    /\ di_synced' = [di_synced EXCEPT ![w] = @ \/ (di_shutdown \in {"push", "done"} /\ di_count > 0) \/ di_shutdown = "done"]
    /\ IF di_deque = <<>>
       THEN /\ di_pc' = [di_pc EXCEPT ![w] = "wait"]
            /\ di_waiting' = di_waiting \cup {w}
            /\ UNCHANGED <<di_deque, di_task, di_popped>>
       ELSE LET front == PopFront(di_deque)
            IN  /\ di_deque' = front.rest
                /\ di_task' = [di_task EXCEPT ![w] = front.task]
                /\ di_popped' = IF front.task = NoOp THEN di_popped
                                 ELSE Append(di_popped, front.task)
                /\ \E woken \in (IF front.rest # <<>> THEN NotifyOne(di_waiting) ELSE {{}}) :
                       /\ di_waiting' = di_waiting \ woken
                       /\ di_pc' = [v \in Workers |->
                                       IF v = w THEN "run"
                                       ELSE IF v \in woken THEN "woken" ELSE di_pc[v]]
    /\ UNCHANGED di_budget
    /\ UNCHANGED <<di_notifies, di_states, di_shutdown, di_count, di_pushed, di_ran,
                   di_at_shutdown>>

\* Condvar::wait may return without a notification.
SpuriousWake(w) ==
    /\ DispatchOnly
    /\ w \in di_waiting
    /\ di_waiting' = di_waiting \ {w}
    /\ di_pc' = [di_pc EXCEPT ![w] = "woken"]
    /\ UNCHANGED di_budget
    /\ UNCHANGED <<di_deque, di_notifies, di_task, di_states, di_synced, di_shutdown,
                   di_count, di_pushed, di_popped, di_ran, di_at_shutdown>>

\* Worker w runs the task it popped, to its end.
WorkerRun(w) ==
    /\ DispatchOnly
    /\ di_pc[w] = "run"
    /\ di_ran' = IF di_task[w] = NoOp THEN di_ran
                  ELSE [di_ran EXCEPT ![di_task[w]] = @ + 1]
    /\ di_task' = [di_task EXCEPT ![w] = NoOp]
    /\ di_pc' = [di_pc EXCEPT ![w] = "load"]
    /\ UNCHANGED di_budget
    /\ UNCHANGED <<di_deque, di_waiting, di_notifies, di_states, di_synced,
                   di_shutdown, di_count, di_pushed, di_popped, di_at_shutdown>>

\* Dispatcher::push by a thread of the application, to `drop(deque)`.
Push ==
    /\ DispatchOnly
    /\ di_pushed < di_budget
    /\ di_pushed' = di_pushed + 1
    /\ di_deque' = Append(di_deque, di_pushed + 1)
    /\ di_notifies' = di_notifies + 1
    /\ UNCHANGED di_budget
    /\ UNCHANGED <<di_waiting, di_pc, di_task, di_states, di_synced, di_shutdown,
                   di_count, di_popped, di_ran, di_at_shutdown>>

\* Dispatcher::push, its last statement: notifier.notify_one().
PushNotify ==
    /\ DispatchOnly
    /\ di_notifies > 0
    /\ di_notifies' = di_notifies - 1
    /\ \E woken \in NotifyOne(di_waiting) :
           /\ di_waiting' = di_waiting \ woken
           /\ di_pc' = [v \in Workers |-> IF v \in woken THEN "woken" ELSE di_pc[v]]
    /\ UNCHANGED di_budget
    /\ UNCHANGED <<di_deque, di_task, di_states, di_synced, di_shutdown, di_count,
                   di_pushed, di_popped, di_ran, di_at_shutdown>>

\* Dispatcher::shutdown is called.
Shutdown ==
    /\ DispatchOnly
    /\ di_shutdown = "idle"
    /\ di_shutdown' = "store"
    /\ di_count' = 0
    /\ di_at_shutdown' = <<di_pc>>
    /\ UNCHANGED di_budget
    /\ UNCHANGED <<di_deque, di_waiting, di_notifies, di_pc, di_task, di_states,
                   di_synced, di_pushed, di_popped, di_ran>>

\* shutdown, first loop: state.store(false, Relaxed) for the next worker.
ShutdownStore ==
    /\ DispatchOnly
    /\ di_shutdown = "store"
    /\ di_states' = [di_states EXCEPT ![di_count + 1] = FALSE]
    /\ di_count' = IF di_count + 1 = NumWorkers THEN 0 ELSE di_count + 1
    /\ di_shutdown' = IF di_count + 1 = NumWorkers
                      THEN (IF ShutdownPushes > 0 THEN "push" ELSE "done")
                      ELSE "store"
    /\ UNCHANGED di_budget
    /\ UNCHANGED <<di_deque, di_waiting, di_notifies, di_pc, di_task, di_synced,
                   di_pushed, di_popped, di_ran, di_at_shutdown>>

\* shutdown, second loop: Dispatcher::push(Box::new(|| {})), to `drop(deque)`.
ShutdownPush ==
    /\ DispatchOnly
    /\ di_shutdown = "push"
    /\ di_deque' = Append(di_deque, NoOp)
    /\ di_notifies' = di_notifies + 1
    /\ di_count' = di_count + 1
    /\ di_shutdown' = IF di_count + 1 >= ShutdownPushes THEN "done" ELSE "push"
    /\ UNCHANGED di_budget
    /\ UNCHANGED <<di_waiting, di_pc, di_task, di_states, di_synced, di_pushed,
                   di_popped, di_ran, di_at_shutdown>>

(***************************************************************************)
(* Scheduler  (dispatch.rs)                                                *)
(***************************************************************************)
Instants == 0..MaxClock
Delays == 0..MaxDelay
DelayedIds == 1..MaxDeploys

\* DelayedTask::new: the task with the instant of its creation and its delay.
DelayedTask(id, now, delay) == [id |-> id, deploy_instant |-> now, delay |-> delay]

\* DelayedTask::is_ready at instant now.
IsReady(task, now) == now - task.deploy_instant >= task.delay

\* Vec::remove(i): the list without its i-th element, the rest shifted left.
Remove(tasks, i) == SubSeq(tasks, 1, i - 1) \o SubSeq(tasks, i + 1, Len(tasks))

\* The index moving on after a removal as well (mutant).
AfterRemoveNext(i) == i + 1

\* The index after tasks.remove(i): unchanged, the next task moved into place i.
AfterRemove(i) == i

\* Scheduler::launch: empty list, state true, the thread about to test the state.
SchedulerInit ==
    /\ sc_clock = 0
    /\ sc_tasks = <<>>
    /\ sc_state = TRUE
    /\ sc_pc = "load"
    /\ sc_i = 1
    /\ sc_deployed = 0
    /\ sc_pushed = <<>>
    /\ sc_at_start = {}
    /\ sc_checked = [id \in DelayedIds |-> <<>>]

\* Time passes.
Tick ==
    /\ SchedulerOnly
    /\ sc_clock < MaxClock
    /\ sc_clock' = sc_clock + 1
    /\ UNCHANGED <<sc_tasks, sc_state, sc_pc, sc_i, sc_deployed, sc_pushed, sc_at_start,
                   sc_checked>>

\* Scheduler::deploy(task, delay): takes the mutex, which the thread holds during a
\* traversal, and pushes DelayedTask::new(task, delay).
Deploy(delay) ==
    /\ SchedulerOnly
    /\ sc_pc # "traverse"
    /\ sc_deployed < MaxDeploys
    /\ sc_clock + delay <= MaxClock
    /\ sc_deployed' = sc_deployed + 1
    /\ sc_tasks' = Append(sc_tasks, DelayedTask(sc_deployed + 1, sc_clock, delay))
    /\ UNCHANGED <<sc_clock, sc_state, sc_pc, sc_i, sc_pushed, sc_at_start, sc_checked>>

\* The thread tests `while instance.state.load(Relaxed)`, whose order with the
\* store of shutdown nothing fixes, and with true locks the list and sets i = 0.
SchedulerLoad ==
    /\ SchedulerOnly
    /\ sc_pc = "load"
    /\ \E value \in {sc_state, TRUE} :
           IF value
           THEN /\ sc_pc' = "traverse"
                /\ sc_i' = 1
                /\ sc_at_start' = {sc_tasks[k].id : k \in 1..Len(sc_tasks)}
                /\ sc_checked' = [id \in DelayedIds |-> <<>>]
           ELSE /\ sc_pc' = "done"
                /\ UNCHANGED <<sc_i, sc_at_start, sc_checked>>
    /\ UNCHANGED <<sc_clock, sc_tasks, sc_state, sc_deployed, sc_pushed>>

\* One turn of `while i < tasks.len()`: a ready task is removed and pushed to the
\* dispatcher, else i moves on; at the end the list is unlocked.
SchedulerTraverse ==
    /\ SchedulerOnly
    /\ sc_pc = "traverse"
    /\ IF sc_i <= Len(sc_tasks)
       THEN /\ sc_checked' = [sc_checked EXCEPT ![sc_tasks[sc_i].id] = <<sc_clock>>]
            /\ IF IsReady(sc_tasks[sc_i], sc_clock)
               THEN /\ sc_pushed' = Append(sc_pushed, [task |-> sc_tasks[sc_i], at |-> sc_clock])
                    /\ sc_tasks' = Remove(sc_tasks, sc_i)
                    /\ sc_i' = AfterRemove(sc_i)
               ELSE /\ sc_i' = sc_i + 1
                    /\ UNCHANGED <<sc_tasks, sc_pushed>>
            /\ UNCHANGED sc_pc
       ELSE /\ sc_pc' = "sleep"
            /\ UNCHANGED <<sc_tasks, sc_i, sc_pushed, sc_checked>>
    /\ UNCHANGED <<sc_clock, sc_state, sc_deployed, sc_at_start>>

\* thread::sleep(2 ms) ends.
SchedulerWake ==
    /\ SchedulerOnly
    /\ sc_pc = "sleep"
    /\ sc_pc' = "load"
    /\ UNCHANGED <<sc_clock, sc_tasks, sc_state, sc_i, sc_deployed, sc_pushed, sc_at_start,
                   sc_checked>>

\* Scheduler::shutdown.
SchedulerShutdown ==
    /\ SchedulerOnly
    /\ sc_state
    /\ sc_state' = FALSE
    /\ UNCHANGED <<sc_clock, sc_tasks, sc_pc, sc_i, sc_deployed, sc_pushed, sc_at_start,
                   sc_checked>>

(***************************************************************************)
(* Batch handles  (batch.rs, draw.rs): a Batch is a handle to a shared     *)
(* vector of operations; a clone of a Batch is the same handle.            *)
(***************************************************************************)
BatchIds == 1..MaxBatches

\* The lists of allocated batches a caller can hand to consolidate; a batch may
\* occur more than once (clones of one handle).
BatchLists(count) == UNION {[1..n -> 1..count] : n \in 0..MaxList}

\* batch.rs Batch::append on handles: the receiver is extended by a clone of the
\* other's operations.
AppendShared(heap, self, other) ==
    [heap EXCEPT ![self] = BatchAppend(heap[self], heap[other])]

\* draw.rs Batch::add_batch on handles: Vec::append moves the other's operations
\* to the receiver and leaves the other empty.
AddBatchShared(heap, self, other) ==
    [heap EXCEPT ![self] = heap[self] \o heap[other], ![other] = <<>>]

\* batch.rs consolidate on handles: a new batch, to which each entry is appended.
RECURSIVE ConsolidateShared(_, _, _, _)
ConsolidateShared(heap, list, i, new) ==
    IF i > Len(list) THEN heap
    ELSE ConsolidateShared(AppendShared(heap, new, list[i]), list, i + 1, new)

\* draw.rs consolidate on handles: a new batch, to which each entry is added.
RECURSIVE ConsolidateDraining(_, _, _, _)
ConsolidateDraining(heap, list, i, new) ==
    IF i > Len(list) THEN heap
    ELSE ConsolidateDraining(AddBatchShared(heap, new, list[i]), list, i + 1, new)

\* The sum of the lengths of the batches of list.
RECURSIVE TotalOps(_, _, _)
TotalOps(heap, list, i) ==
    IF i > Len(list) THEN 0 ELSE Len(heap[list[i]]) + TotalOps(heap, list, i + 1)

\* The operations held by all batches together.
HeapOps(heap) == TotalOps(heap, [b \in BatchIds |-> b], 1)

\* No batch exists yet; the program is built on one of the two Batch types.
BatchInit ==
    /\ ba_module \in {"batch", "draw"}
    /\ ba_heap = [b \in BatchIds |-> <<>>]
    /\ ba_count = 0
    /\ ba_next_op = 1
    /\ ba_op = "none"
    /\ ba_inputs = <<>>
    /\ ba_result = None
    /\ ba_before = [b \in BatchIds |-> <<>>]

\* The last call returned.
Returned == ba_op # "fault"

\* Batch::new.
NewBatch ==
    /\ BatchOnly
    /\ Returned
    /\ ba_count < MaxBatches
    /\ ba_count' = ba_count + 1
    /\ ba_op' = "new"
    /\ ba_inputs' = <<>>
    /\ ba_result' = ba_count + 1
    /\ ba_before' = ba_heap
    /\ UNCHANGED <<ba_module, ba_heap, ba_next_op>>

\* Batch::add_op (batch.rs), Batch::add (draw.rs): push a newly made operation.
AddOperation(self) ==
    /\ BatchOnly
    /\ Returned
    /\ self <= ba_count
    /\ ba_next_op <= MaxOps
    /\ ba_heap' = [ba_heap EXCEPT ![self] = AddOp(@, ba_next_op)]
    /\ ba_next_op' = ba_next_op + 1
    /\ ba_op' = "add_op"
    /\ ba_inputs' = <<>>
    /\ ba_result' = self
    /\ ba_before' = ba_heap
    /\ UNCHANGED <<ba_module, ba_count>>

\* Batch::append (batch.rs) or Batch::add_batch (draw.rs) of other to self. Handed
\* its own handle, append asks for the read lock while it holds the write lock
\* (panic or deadlock) and add_batch borrows the RefCell mutably twice (panic):
\* the call does not return.
AppendBatch(self, other) ==
    /\ BatchOnly
    /\ Returned
    /\ self <= ba_count
    /\ other <= ba_count
    /\ ba_heap' = IF self = other THEN ba_heap
                  ELSE IF ba_module = "batch" THEN AppendShared(ba_heap, self, other)
                  ELSE AddBatchShared(ba_heap, self, other)
    /\ HeapOps(ba_heap') <= MaxHeapOps
    /\ ba_op' = IF self = other THEN "fault" ELSE "append"
    /\ ba_inputs' = <<other>>
    /\ ba_result' = self
    /\ ba_before' = ba_heap
    /\ UNCHANGED <<ba_module, ba_count, ba_next_op>>

\* BatchConsolidation::consolidate of batch.rs or draw.rs on a list of batches.
ConsolidateList(list) ==
    /\ BatchOnly
    /\ Returned
    /\ ba_count < MaxBatches
    /\ ba_count' = ba_count + 1
    /\ ba_heap' = IF ba_module = "batch"
                  THEN ConsolidateShared(ba_heap, list, 1, ba_count + 1)
                  ELSE ConsolidateDraining(ba_heap, list, 1, ba_count + 1)
    /\ HeapOps(ba_heap') <= MaxHeapOps
    /\ ba_op' = "consolidate"
    /\ ba_inputs' = list
    /\ ba_result' = ba_count + 1
    /\ ba_before' = ba_heap
    /\ UNCHANGED <<ba_module, ba_next_op>>

(***************************************************************************)
(* Specifications.                                                         *)
(***************************************************************************)
EventNext ==
    \/ \E ret \in BOOLEAN : Subscribe(ret)
    \/ \E token \in 1..MaxSubs : Unsubscribe(token)
    \/ EventBroadcast
    \/ \E query \in Queries : EventQuery(query)

InitEvent == RegionInit /\ SchedulerInit /\ DispatcherInit /\ ReentrantInit /\ NestedInit /\ PayloadInit /\ TextFieldInit /\ DrawInit /\ BatchInit /\ ba_module = "batch" /\ FocusInit /\ ButtonInit /\ EventInit /\ PropertyInit /\ pr_value = 0 /\ LayoutInit

SpecEvent == InitEvent /\ [][EventNext]_vars

PropertyNext ==
    \/ Listen
    \/ \E token \in 1..MaxListens : Unlisten(token)
    \/ \E v \in Values : SetBegin(v)
    \/ InformBegin
    \/ Invoke
    \/ SetStore
    \/ InformEnd

InitProperty == RegionInit /\ SchedulerInit /\ DispatcherInit /\ ReentrantInit /\ NestedInit /\ PayloadInit /\ TextFieldInit /\ DrawInit /\ BatchInit /\ ba_module = "batch" /\ FocusInit /\ ButtonInit /\ EventInit /\ PropertyInit /\ LayoutInit

SpecProperty == InitProperty /\ [][PropertyNext]_vars

LayoutNext ==
    \/ \E pos \in IntPairs : MouseMove(pos)
    \/ MouseLeave
    \/ \E ev \in {"on_primary_down", "on_primary_up"} : Primary(ev)
    \/ \E w \in Widgets : PushChild(w)
    \/ \E index \in 1..NumWidgets, keep \in BOOLEAN : RemoveChild(index, keep)
    \/ \E w \in Widgets : DropHandle(w)
    \/ \E w \in Widgets, p \in Positions : SetPosition(w, p)
    \/ \E w \in Widgets, s \in Sizes : SetSize(w, s)

InitLayout == RegionInit /\ SchedulerInit /\ DispatcherInit /\ ReentrantInit /\ NestedInit /\ PayloadInit /\ TextFieldInit /\ DrawInit /\ BatchInit /\ ba_module = "batch" /\ FocusInit /\ ButtonInit /\ EventInit /\ PropertyInit /\ pr_value = 0 /\ LayoutInit

SpecLayout == InitLayout /\ [][LayoutNext]_vars

ButtonNext ==
    \/ ButtonDraw
    \/ ButtonPrimaryDown
    \/ ButtonPrimaryUp
    \/ ButtonMouseEnter
    \/ ButtonMouseLeave
    \/ ButtonGainFocus
    \/ ButtonLoseFocus
    \/ \E key \in Keys : ButtonKeyDown(key)
    \/ \E key \in Keys : ButtonKeyUp(key)
    \/ \E b \in BOOLEAN : SetEnabled(b)
    \/ ApplyDefaultStyle
    \/ \E ev \in StyleEvents : SubscribeStyle(ev)
    \/ SubscribeAction
    \/ FocusOther

InitButton == RegionInit /\ SchedulerInit /\ DispatcherInit /\ ReentrantInit /\ NestedInit /\ PayloadInit /\ TextFieldInit /\ DrawInit /\ BatchInit /\ ba_module = "batch" /\ FocusInit /\ ButtonInit /\ EventInit /\ PropertyInit /\ pr_value = 0 /\ LayoutInit

SpecButton == InitButton /\ [][ButtonNext]_vars

FocusNext ==
    \/ Circulate
    \/ \E key \in DispatchKeys : KeyDown(key)
    \/ \E key \in DispatchKeys : KeyUp(key)
    \/ \E w \in Buttons : Click(w)
    \/ \E w \in Buttons, b \in BOOLEAN : FocusSetEnabled(w, b)
    \/ \E w \in TabWidgets : Destroy(w)
    \/ \E w \in TabWidgets : PushManual(w)
    \/ \E w \in TabWidgets, kind \in GainKinds : SubscribeGain(w, kind)
    \/ \E w \in TabWidgets, kind \in LoseKinds : SubscribeLose(w, kind)

InitFocus == RegionInit /\ SchedulerInit /\ DispatcherInit /\ ReentrantInit /\ NestedInit /\ PayloadInit /\ TextFieldInit /\ DrawInit /\ BatchInit /\ ba_module = "batch" /\ FocusInit /\ ButtonInit /\ EventInit /\ PropertyInit /\ pr_value = 0 /\ LayoutInit

SpecFocus == InitFocus /\ [][FocusNext]_vars

\* Pointer events, key events and circulate_focus calls, and nothing else.
ButtonsNext ==
    \/ Circulate
    \/ \E key \in DispatchKeys : KeyDown(key)
    \/ \E key \in DispatchKeys : KeyUp(key)
    \/ \E w \in TabWidgets : Click(w)

InitButtons == RegionInit /\ SchedulerInit /\ DispatcherInit /\ ReentrantInit /\ NestedInit /\ PayloadInit /\ TextFieldInit /\ DrawInit /\ BatchInit /\ ba_module = "batch" /\ AllButtonsInit /\ ButtonInit /\ EventInit /\ PropertyInit /\ pr_value = 0 /\ LayoutInit

SpecButtons == InitButtons /\ [][ButtonsNext]_vars

DrawNext ==
    \/ LayoutDraw
    \/ \E w \in Widgets : SubscribeDraw(w)
    \/ \E w \in Widgets : PushChild(w)
    \/ \E index \in 1..NumWidgets, keep \in BOOLEAN : RemoveChild(index, keep)
    \/ \E w \in Widgets, p \in Positions : SetPosition(w, p)
    \/ \E w \in Widgets, s \in Sizes : SetSize(w, s)

InitDraw == RegionInit /\ SchedulerInit /\ DispatcherInit /\ ReentrantInit /\ NestedInit /\ PayloadInit /\ TextFieldInit /\ DrawInit /\ BatchInit /\ ba_module = "batch" /\ FocusInit /\ ButtonInit /\ EventInit /\ PropertyInit /\ pr_value = 0 /\ LayoutInit

SpecDraw == InitDraw /\ [][DrawNext]_vars

TextFieldNext ==
    \/ TextDraw
    \/ TextPrimaryDown
    \/ TextGainFocus
    \/ TextLoseFocus
    \/ \E b \in BOOLEAN : TextSetEnabled(b)
    \/ \E b \in BOOLEAN : TextSetWidgetEnabled(b)
    \/ \E slot \in {None, Other} : TextFocusElsewhere(slot)

InitTextField == RegionInit /\ SchedulerInit /\ DispatcherInit /\ ReentrantInit /\ NestedInit /\ PayloadInit /\ TextFieldInit /\ DrawInit /\ BatchInit /\ ba_module = "batch" /\ FocusInit /\ ButtonInit /\ EventInit /\ PropertyInit /\ pr_value = 0 /\ LayoutInit

SpecTextField == InitTextField /\ [][TextFieldNext]_vars

PayloadNext ==
    \/ \E payload \in OptionalPayloads : PayloadSet(payload)
    \/ \E p \in Payloads : PayloadPut(p)
    \/ PayloadTake
    \/ PayloadClear
    \/ PayloadGetMut
    \/ PayloadDrop
    \/ \E t \in PayloadTypes, keep \in BOOLEAN : PayloadGetAs(t, keep)

InitPayload == RegionInit /\ SchedulerInit /\ DispatcherInit /\ ReentrantInit /\ NestedInit /\ PayloadInit /\ TextFieldInit /\ DrawInit /\ BatchInit /\ ba_module = "batch" /\ FocusInit /\ ButtonInit /\ EventInit /\ PropertyInit /\ pr_value = 0 /\ LayoutInit

SpecPayload == InitPayload /\ [][PayloadNext]_vars

PointerNext ==
    \/ \E pos \in PointerPairs : MouseMove(pos)
    \/ MouseLeave

InitPointer == RegionInit /\ SchedulerInit /\ DispatcherInit /\ ReentrantInit /\ NestedInit /\ PayloadInit /\ TextFieldInit /\ DrawInit /\ BatchInit /\ ba_module = "batch" /\ FocusInit /\ ButtonInit /\ EventInit /\ PropertyInit /\ pr_value = 0 /\ PointerInit

SpecPointer == InitPointer /\ [][PointerNext]_vars

NestedNext ==
    \/ \E pos \in IntPairs : NestedMove(pos)
    \/ NestedLeave
    \/ \E ev \in {"on_primary_down", "on_primary_up"} : NestedPrimary(ev)
    \/ \E w \in Widgets, p \in Positions : NestedSetPosition(w, p)
    \/ \E w \in Widgets, z \in Sizes : NestedSetSize(w, z)

InitNested == RegionInit /\ SchedulerInit /\ DispatcherInit /\ ReentrantInit /\ NestedInit /\ PayloadInit /\ TextFieldInit /\ DrawInit /\ BatchInit /\ ba_module = "batch" /\ FocusInit /\ ButtonInit /\ EventInit /\ PropertyInit /\ pr_value = 0 /\ LayoutInit

SpecNested == InitNested /\ [][NestedNext]_vars

ReentrantNext ==
    \/ \E w \in Widgets, kind \in QuietKinds \cup CallingKinds : ListenGain(w, kind)
    \/ \E w \in Widgets, kind \in QuietKinds \cup CallingKinds : ListenLose(w, kind)
    \/ \E kind \in CallingKinds, w \in Widgets : Outside(kind, w)
    \/ CirculateBegin
    \/ LoseStep
    \/ GainStep

InitReentrant == RegionInit /\ SchedulerInit /\ DispatcherInit /\ ReentrantInit /\ NestedInit /\ PayloadInit /\ TextFieldInit /\ DrawInit /\ BatchInit /\ ba_module = "batch" /\ FocusInit /\ ButtonInit /\ EventInit /\ PropertyInit /\ pr_value = 0 /\ LayoutInit

SpecReentrant == InitReentrant /\ [][ReentrantNext]_vars

\* The dispatcher while shutdown is not called.
DispatchRunNext ==
    \/ \E w \in Workers : WorkerLoad(w)
    \/ \E w \in Workers : WorkerPop(w)
    \/ \E w \in Workers : SpuriousWake(w)
    \/ \E w \in Workers : WorkerRun(w)
    \/ Push
    \/ PushNotify

DispatchNext ==
    \/ \E w \in Workers : WorkerLoad(w)
    \/ \E w \in Workers : WorkerPop(w)
    \/ \E w \in Workers : SpuriousWake(w)
    \/ \E w \in Workers : WorkerRun(w)
    \/ Push
    \/ PushNotify
    \/ Shutdown
    \/ ShutdownStore
    \/ ShutdownPush

InitDispatch == RegionInit /\ SchedulerInit /\ DispatcherInit /\ ReentrantInit /\ NestedInit /\ PayloadInit /\ TextFieldInit /\ DrawInit /\ BatchInit /\ ba_module = "batch" /\ FocusInit /\ ButtonInit /\ EventInit /\ PropertyInit /\ pr_value = 0 /\ LayoutInit

SpecDispatch == InitDispatch /\ [][DispatchNext]_vars

\* The scheduler runs every thread that can take a step, a running task ends, and a
\* thread inside push or shutdown goes on; nothing makes the application push or
\* call shutdown, and no wait returns spuriously unless it happens to.
DispatchFairness ==
    /\ \A w \in Workers : WF_vars(WorkerLoad(w)) /\ WF_vars(WorkerPop(w)) /\ WF_vars(WorkerRun(w))
    /\ WF_vars(PushNotify)
    /\ WF_vars(ShutdownStore)
    /\ WF_vars(ShutdownPush)

SpecDispatchFair == InitDispatch /\ [][DispatchRunNext]_vars /\ DispatchFairness

InitShutdown == RegionInit /\ SchedulerInit /\ DispatcherShutdownInit /\ ReentrantInit /\ NestedInit /\ PayloadInit /\ TextFieldInit /\ DrawInit /\ BatchInit /\ ba_module = "batch" /\ FocusInit /\ ButtonInit /\ EventInit /\ PropertyInit /\ pr_value = 0 /\ LayoutInit

SpecShutdownFair == InitShutdown /\ [][DispatchNext]_vars /\ DispatchFairness

SchedulerNext ==
    \/ Tick
    \/ \E delay \in Delays : Deploy(delay)
    \/ SchedulerLoad
    \/ SchedulerTraverse
    \/ SchedulerWake
    \/ SchedulerShutdown

InitScheduler == RegionInit /\ SchedulerInit /\ DispatcherInit /\ ReentrantInit /\ NestedInit /\ PayloadInit /\ TextFieldInit /\ DrawInit /\ BatchInit /\ ba_module = "batch" /\ FocusInit /\ ButtonInit /\ EventInit /\ PropertyInit /\ pr_value = 0 /\ LayoutInit

\* Time passes and the polling thread is scheduled; nothing makes the application
\* deploy or shut down.
SchedulerFairness ==
    /\ WF_vars(Tick)
    /\ WF_vars(SchedulerLoad)
    /\ WF_vars(SchedulerTraverse)
    /\ WF_vars(SchedulerWake)

SpecScheduler == InitScheduler /\ [][SchedulerNext]_vars /\ SchedulerFairness

RegionNext ==
    \/ Intersect

InitRegions == RegionsInit /\ SchedulerInit /\ DispatcherInit /\ ReentrantInit /\ NestedInit /\ PayloadInit /\ TextFieldInit /\ DrawInit /\ BatchInit /\ ba_module = "batch" /\ FocusInit /\ ButtonInit /\ EventInit /\ PropertyInit /\ pr_value = 0 /\ LayoutInit

SpecRegions == InitRegions /\ [][RegionNext]_vars

BatchNext ==
    \/ NewBatch
    \/ \E self \in BatchIds : AddOperation(self)
    \/ \E self \in BatchIds, other \in BatchIds : AppendBatch(self, other)
    \/ \E list \in BatchLists(ba_count) : ConsolidateList(list)

InitBatch == RegionInit /\ SchedulerInit /\ DispatcherInit /\ ReentrantInit /\ NestedInit /\ PayloadInit /\ TextFieldInit /\ DrawInit /\ BatchInit /\ FocusInit /\ ButtonInit /\ EventInit /\ PropertyInit /\ pr_value = 0 /\ LayoutInit

SpecBatch == InitBatch /\ [][BatchNext]_vars

(***************************************************************************)
(* C1: with no unsubscribe since the event was created, a broadcast after  *)
(* N subscriptions invokes each of the N listeners exactly once, in        *)
(* subscription order, and returns N results, the i-th being the result    *)
(* of the i-th subscribed listener.                                        *)
(***************************************************************************)
C1_BroadcastInSubscriptionOrder ==
    (ev_op = "broadcast" /\ ev_unsubs = 0) =>
        /\ Len(ev_calls) = Len(ev_sub_order)
        /\ Len(ev_results) = Len(ev_sub_order)
        /\ \A i \in 1..Len(ev_sub_order) :
              /\ ev_calls[i] = ev_sub_order[i].id
              /\ ev_results[i] = ev_sub_order[i].ret

\* A broadcast over three listeners whose results differ, none unsubscribed.
C1_Witness ==
    /\ ev_op = "broadcast"
    /\ ev_unsubs = 0
    /\ ev_calls = <<1, 2, 3>>
    /\ ev_results = <<TRUE, FALSE, TRUE>>

(***************************************************************************)
(* C2: set(v) invokes every subscribed listener exactly once, in           *)
(* subscription order, passing v; while a listener runs, get() still       *)
(* returns the value from before the set; once set(v) has returned, get()  *)
(* returns v.                                                              *)
(***************************************************************************)
C2_SetNotifiesThenStores ==
    pr_op = "set" =>
        /\ Len(pr_seen) = pr_idx - 1
        /\ \A i \in 1..Len(pr_seen) :
              /\ pr_seen[i].id = pr_listeners[i]
              /\ pr_seen[i].arg = pr_incoming
              /\ pr_seen[i].got = pr_old
        /\ pr_pc = "notify" => Get = pr_old
        /\ pr_pc = "idle" =>
              /\ Len(pr_seen) = Len(pr_listeners)
              /\ Get = pr_incoming

\* set(v) has returned after notifying two listeners with a value that differs
\* from the previous one.
C2_Witness ==
    /\ pr_op = "set"
    /\ pr_pc = "idle"
    /\ Len(pr_seen) = 2
    /\ pr_incoming # pr_old
    /\ pr_value = pr_incoming

(***************************************************************************)
(* Helpers of the layout claims.                                           *)
(***************************************************************************)
\* Widget c's rectangle holds the pointer position p, by the half-open rule written
\* out on the fixed-point coordinates: px <= x < px + w and py <= y < py + h.
UnderPointer(c, p) ==
    /\ ly_position[c].x <= p.x * Scale
    /\ p.x * Scale < ly_position[c].x + ly_size[c].x
    /\ ly_position[c].y <= p.y * Scale
    /\ p.y * Scale < ly_position[c].y + ly_size[c].y

\* The events the last layout handler broadcast on widget c, in order.
EventsTo(c) ==
    LET mine == SelectSeq(ly_delivered, LAMBDA d : d.to = c)
    IN  [i \in 1..Len(mine) |-> mine[i].ev]

LayoutHandlers == {"on_mouse_move", "on_mouse_leave", "on_primary_down", "on_primary_up"}

\* The entries of the hover set, as the last handler found it, that were still alive.
LiveHoverBefore == SelectSeq(ly_hov_before, LAMBDA r : r \in LyAlive)

(***************************************************************************)
(* C3: after a pointer move to (x, y), a child at (px, py) of size (w, h)  *)
(* is treated as under the pointer (it is in the hover set, and was sent   *)
(* an enter or a move) if and only if px <= x < px + w and                 *)
(* py <= y < py + h.                                                       *)
(***************************************************************************)
C3_HalfOpenHitTest ==
    ly_op = "on_mouse_move" =>
        \A i \in 1..Len(ly_children) :
            LET c == ly_children[i]
            IN  /\ ContainsRef(ly_cur_hov, c) <=> UnderPointer(c, ly_cur_pos)
                /\ (\E d \in Range(ly_delivered) :
                        d.to = c /\ d.ev \in {"on_mouse_enter", "on_mouse_move"})
                   <=> UnderPointer(c, ly_cur_pos)

\* The pointer is at (0, 1). One child's rectangle starts exactly at x = 0 (its min
\* edge) and holds the pointer; the other's ends exactly at y = 1 (its max edge)
\* and does not.
C3_Witness ==
    /\ ly_op = "on_mouse_move"
    /\ ly_cur_pos = Pair(0, 1)
    /\ Len(ly_children) = 2
    /\ \E a, b \in Range(ly_children) :
          /\ ly_position[a].x = 0
          /\ ContainsRef(ly_cur_hov, a)
          /\ ly_position[b].y + ly_size[b].y = 1 * Scale
          /\ ly_position[b].x <= 0 /\ 0 < ly_position[b].x + ly_size[b].x
          /\ ~ContainsRef(ly_cur_hov, b)

(***************************************************************************)
(* C4: on every pointer move each child receives exactly one broadcast, or *)
(* none: an enter if it holds the point and was not hovered, a move if it  *)
(* holds the point and was hovered, a leave if it was hovered and no       *)
(* longer holds the point, nothing otherwise.                              *)
(***************************************************************************)
C4_HoverTransitions ==
    ly_op = "on_mouse_move" =>
        \A i \in 1..Len(ly_children) :
            LET c == ly_children[i]
                hit == UnderPointer(c, ly_cur_pos)
                was == ContainsRef(ly_hov_before, c)
            IN  EventsTo(c) =
                    IF hit /\ ~was THEN <<"on_mouse_enter">>
                    ELSE IF hit /\ was THEN <<"on_mouse_move">>
                    ELSE IF was THEN <<"on_mouse_leave">>
                    ELSE <<>>

\* One move on which a hovered child gets a move and the other hovered child, which
\* the pointer has left, gets a leave.
C4_Witness ==
    /\ ly_op = "on_mouse_move"
    /\ Len(ly_children) = 2
    /\ \E a, b \in Range(ly_children) :
          /\ EventsTo(a) = <<"on_mouse_move">>
          /\ EventsTo(b) = <<"on_mouse_leave">>

(***************************************************************************)
(* C5: after a pointer move the hover set is exactly the children whose    *)
(* rectangle holds the moved-to point, in child-list order, whatever the   *)
(* hover set was before.                                                   *)
(***************************************************************************)
C5_HoverSetReplaced ==
    ly_op = "on_mouse_move" =>
        ly_cur_hov = SelectSeq(ly_children, LAMBDA c : UnderPointer(c, ly_cur_pos))

\* Two overlapping children both hold the point and the hover set held before the
\* move was a different one.
C5_Witness ==
    /\ ly_op = "on_mouse_move"
    /\ Len(ly_cur_hov) = 2
    /\ ly_cur_hov = ly_children
    /\ Len(ly_hov_before) = 1

(***************************************************************************)
(* C6: a primary-down or primary-up on the layout is delivered exactly     *)
(* once to each widget in the hover set, in order, and to nobody else; on  *)
(* a layout that has seen no pointer move since it was created or since    *)
(* its last leave it reaches nobody, even when a child lies under the      *)
(* pointer.                                                                *)
(***************************************************************************)
C6_ButtonsRideOnHoverSet ==
    ly_op \in {"on_primary_down", "on_primary_up"} =>
        /\ ly_delivered = [i \in 1..Len(ly_cur_hov) |->
                              Delivery(ly_cur_hov[i], ly_op, NoArg)]
        /\ ly_cur_hov = LiveHoverBefore
        /\ \A i, j \in 1..Len(ly_cur_hov) : ly_cur_hov[i] = ly_cur_hov[j] => i = j
        /\ ly_unmoved => ly_delivered = <<>>

\* A primary-down on a layout that has seen no pointer move reaches nobody although
\* a child lies under the pointer position the layout starts with.
C6_Witness ==
    /\ ly_op = "on_primary_down"
    /\ ly_unmoved
    /\ ly_delivered = <<>>
    /\ \E c \in Range(ly_children) : UnderPointer(c, ly_cur_pos)

(***************************************************************************)
(* C7: on a mouse-leave of the layout every live widget of the hover set   *)
(* receives exactly one leave, and the hover set is empty afterwards and   *)
(* stays empty, so that a primary-down reaches nobody, until the next      *)
(* pointer move.                                                           *)
(***************************************************************************)
C7_LeaveClearsHoverSet ==
    /\ ly_op = "on_mouse_leave" =>
          ly_delivered = [i \in 1..Len(LiveHoverBefore) |->
                             Delivery(LiveHoverBefore[i], "on_mouse_leave", NoArg)]
    /\ ly_unmoved => ly_cur_hov = <<>>
    /\ (ly_unmoved /\ ly_op = "on_primary_down") => ly_delivered = <<>>

\* A leave that reached two hovered children.
C7_Witness ==
    /\ ly_op = "on_mouse_leave"
    /\ Len(ly_delivered) = 2
    /\ ly_cur_hov = <<>>

(***************************************************************************)
(* C8: when a widget of the hover set has been destroyed, the next         *)
(* pointer-move, leave, primary-down or primary-up on the layout completes *)
(* without a panic, delivers nothing to the destroyed widget and leaves    *)
(* no dead entry in the hover set.                                         *)
(***************************************************************************)
C8_DeadHoverEntriesPurged ==
    /\ ~ly_panicked
    /\ ly_op \in LayoutHandlers =>
          /\ \A i \in 1..Len(ly_cur_hov) : ly_cur_hov[i] \in LyAlive
          /\ \A i \in 1..Len(ly_delivered) : ly_delivered[i].to \in LyAlive

\* A primary-down found a destroyed widget in the hover set, next to a live one.
C8_Witness ==
    /\ ly_op = "on_primary_down"
    /\ ~ly_panicked
    /\ \E i \in 1..Len(ly_hov_before) : ly_hov_before[i] \notin LyAlive
    /\ Len(ly_delivered) = 1

(***************************************************************************)
(* C9: a Button that receives primary-down and then primary-up broadcasts  *)
(* action exactly once, invoking each action listener once, when enabled   *)
(* is true as the primary-up is handled, and not at all when enabled is    *)
(* false then, whatever enabled was at the primary-down; the primary-down  *)
(* itself never broadcasts action.                                         *)
(***************************************************************************)
ActionListenersOnce == [id \in 1..bt_action |-> [ev |-> "action", id |-> id]]

C9_ActionOnceIffEnabledAtUp ==
    /\ bt_op = "on_primary_down" =>
        /\ bt_broadcasts = <<>>
        /\ bt_invoked = <<>>
    /\ (bt_op = "on_primary_up" /\ bt_prev = "on_primary_down") =>
        /\ bt_enabled => bt_broadcasts = <<"action">> /\ bt_invoked = ActionListenersOnce
        /\ ~bt_enabled => bt_broadcasts = <<>> /\ bt_invoked = <<>>

\* A button disabled between the primary-down and the primary-up, with action
\* listeners subscribed: the primary-up invoked none of them.
C9_Witness ==
    /\ bt_op = "on_primary_up"
    /\ bt_prev = "on_primary_down"
    /\ bt_prev_enabled
    /\ ~bt_enabled
    /\ bt_action = MaxButtonSubs
    /\ bt_invoked = <<>>

(***************************************************************************)
(* C10: drawing a Button broadcasts exactly one of its four style events:  *)
(* draw_disabled whenever enabled is false, whatever its state (Normal,    *)
(* Hover or Pressed), and otherwise the event matching its state; each     *)
(* listener of that event is invoked once, and the returned batch is the   *)
(* operations of their results, listener after listener.                   *)
(***************************************************************************)
StyleOf ==
    IF ~bt_enabled THEN "draw_disabled"
    ELSE [Normal |-> "draw_normal", Hover |-> "draw_hover", Pressed |-> "draw_pressed"][bt_state]

\* The results of the listeners of style event ev, in subscription order.
ResultsOf(ev) ==
    [id \in 1..Len(bt_style[ev]) |-> StyleResult(bt_style[ev][id], ev, id, bt_focused)]

\* The number of operations in the first n of the batches rs.
RECURSIVE OpsBefore(_, _)
OpsBefore(rs, n) == IF n = 0 THEN 0 ELSE OpsBefore(rs, n - 1) + Len(rs[n])

\* batch holds the operations of rs[1], then those of rs[2], and so on.
IsConsolidationOf(batch, rs) ==
    /\ Len(batch) = OpsBefore(rs, Len(rs))
    /\ \A i \in 1..Len(rs) : \A j \in 1..Len(rs[i]) :
        batch[OpsBefore(rs, i - 1) + j] = rs[i][j]

C10_DrawBroadcastsOneStyle ==
    bt_op = "on_draw" =>
        /\ bt_broadcasts = <<StyleOf>>
        /\ bt_invoked = [id \in 1..Len(bt_style[StyleOf]) |-> [ev |-> StyleOf, id |-> id]]
        /\ Len(bt_returned) = 1
        /\ IsConsolidationOf(bt_returned[1], ResultsOf(StyleOf))

\* A disabled, pressed, focused button with two listeners on draw_disabled and one
\* on draw_pressed was drawn: the batch holds the four operations of draw_disabled.
C10_Witness ==
    /\ bt_op = "on_draw"
    /\ ~bt_enabled
    /\ bt_state = "Pressed"
    /\ bt_focused
    /\ bt_style["draw_disabled"] = <<"default", "custom">>
    /\ Len(bt_style["draw_pressed"]) = 1
    /\ Len(bt_returned[1]) = 4
    /\ \A i \in 1..4 : bt_returned[1][i].style \in {"draw_disabled", "focus"}

(***************************************************************************)
(* C11: a Button starts in state Normal; after a pointer event its state   *)
(* depends on that event alone, not on the state before or on enabled:     *)
(* mouse-enter gives Hover, mouse-leave Normal, primary-down Pressed,      *)
(* primary-up Hover; each of the four issues exactly one redraw request.   *)
(***************************************************************************)
StateAfterPointer ==
    [on_mouse_enter |-> "Hover", on_mouse_leave |-> "Normal",
     on_primary_down |-> "Pressed", on_primary_up |-> "Hover"]

C11_PointerEventDecidesState ==
    /\ bt_op = "new" => bt_state = "Normal"
    /\ bt_op \in DOMAIN StateAfterPointer =>
        /\ bt_state = StateAfterPointer[bt_op]
        /\ bt_redraws = 1

\* A disabled button that was Pressed received mouse-enter and is now Hover.
C11_Witness ==
    /\ bt_op = "on_mouse_enter"
    /\ bt_state_before = "Pressed"
    /\ ~bt_enabled
    /\ bt_state = "Hover"
    /\ bt_redraws = 1

(***************************************************************************)
(* C12: right after a Button handled primary-down the focused-widget slot  *)
(* refers to that Button, whether or not it is enabled and whichever       *)
(* widget held the slot before.                                            *)
(***************************************************************************)
C12_PrimaryDownTakesFocusSlot ==
    bt_op = "on_primary_down" => focused_component = Self

\* A disabled button took the slot from another widget by primary-down.
C12_Witness ==
    /\ bt_op = "on_primary_down"
    /\ ~bt_enabled
    /\ bt_slot_before = Other
    /\ focused_component = Self

(***************************************************************************)
(* C13: key-down with Return, Space or NumpadEnter sets the state to       *)
(* Pressed; key-up with one of them sets it to Normal and broadcasts       *)
(* action exactly once, enabled or not; key-down and key-up with any other *)
(* key leave the state as it was and broadcast no action.                  *)
(***************************************************************************)
C13_KeyboardActivation ==
    LET activating == bt_arg \in {<<"Return">>, <<"Space">>, <<"NumpadEnter">>}
    IN  /\ bt_op = "on_key_down" =>
            /\ bt_state = IF activating THEN "Pressed" ELSE bt_state_before
            /\ bt_broadcasts = <<>>
        /\ bt_op = "on_key_up" =>
            /\ bt_state = IF activating THEN "Normal" ELSE bt_state_before
            /\ bt_broadcasts = IF activating THEN <<"action">> ELSE <<>>
            /\ bt_invoked = IF activating
                            THEN [id \in 1..bt_action |-> [ev |-> "action", id |-> id]]
                            ELSE <<>>

\* A disabled button released Space after it was pressed by Space: its action
\* listeners ran.
C13_Witness ==
    /\ bt_op = "on_key_up"
    /\ bt_arg = <<"Space">>
    /\ bt_prev = "on_key_down"
    /\ bt_state_before = "Pressed"
    /\ ~bt_enabled
    /\ bt_state = "Normal"
    /\ Len(bt_invoked) = MaxButtonSubs

(***************************************************************************)
(* Shorthands for the claims about the focus coordinator.                  *)
(***************************************************************************)
\* circulate_focus ran in the last operation.
CirculateRan == fc_returned # <<>>

\* The active tab order of the last circulate_focus call: the purged manual order
\* if an entry is left in it, else the purged automatic order.
OrderUsed == IF manual_tab_order # <<>> THEN manual_tab_order ELSE auto_tab_order

\* The broadcasts of event ev in the last operation, in order.
Asks(ev) == SelectSeq(fc_delivered, LAMBDA d : d.ev = ev)

\* A broadcast that had a listener answer false.
Refused(d) == \E i \in 1..Len(d.results) : d.results[i] = FALSE

\* The widget that held the slot was alive and one of its lose-focus listeners
\* answers false.
HolderVetoes ==
    /\ fc_slot_before \in fc_alive
    /\ "veto" \in Range(fc_lose[fc_slot_before])

\* The index the walk starts at, by the slot before the call.
StartOf(order) ==
    IF fc_slot_before \in fc_alive /\ fc_slot_before \in Range(order)
    THEN LET i == CHOOSE k \in 1..Len(order) :
                    order[k] = fc_slot_before /\ \A j \in 1..(k - 1) : order[j] # fc_slot_before
         IN  (i % Len(order)) + 1
    ELSE 1

\* The k-th entry of order counted circularly from index start.
Circular(order, start, k) == order[((start + k - 2) % Len(order)) + 1]

(***************************************************************************)
(* C14: a Button's gain-focus handler returns true exactly when the Button *)
(* is enabled, and then its focused flag is true; whenever the handler     *)
(* refuses, the Button's focused flag is false after the handler returns,  *)
(* in every reachable state.                                               *)
(***************************************************************************)
C14_RefusalLeavesUnfocused ==
    \A i \in 1..Len(fc_delivered) :
        LET d == fc_delivered[i]
        IN  (d.ev = "on_gain_focus" /\ d.to \in Buttons) =>
                /\ d.results = <<fc_enabled[d.to]>>
                /\ fc_enabled[d.to] => fc_focused[d.to]
                /\ ~fc_enabled[d.to] => ~fc_focused[d.to]

(***************************************************************************)
(* C15: if the focused live widget has a lose-focus listener that always   *)
(* returns false, then for every non-empty active tab order circulate_focus*)
(* returns false, leaves the slot on that widget and broadcasts gain-focus *)
(* on no candidate.                                                        *)
(***************************************************************************)
C15_VetoKeepsFocus ==
    (CirculateRan /\ HolderVetoes /\ OrderUsed # <<>>) =>
        /\ fc_returned = <<FALSE>>
        /\ fc_slot = fc_slot_before
        /\ Asks("on_gain_focus") = <<>>

\* The focused plain widget vetoes; the manual order holds it and two more widgets;
\* the call asked it to yield and nothing else.
C15_Witness ==
    /\ CirculateRan
    /\ HolderVetoes
    /\ fc_slot_before \notin Buttons
    /\ Len(OrderUsed) = NumTabWidgets
    /\ fc_slot_before \in Range(OrderUsed)
    /\ Len(fc_delivered) = 1
    /\ fc_delivered[1].ev = "on_lose_focus"
    /\ fc_returned = <<FALSE>>

(***************************************************************************)
(* C16: circulate_focus uses the manual tab order whenever it holds a live *)
(* widget and the automatic order otherwise; when both are empty after the *)
(* purge it empties the slot and returns true without a lose-focus or      *)
(* gain-focus broadcast on any widget.                                     *)
(***************************************************************************)
C16_ManualBeforeAutomatic ==
    CirculateRan =>
        /\ \A w \in Range(manual_tab_order) \cup Range(auto_tab_order) : w \in fc_alive
        /\ (manual_tab_order = <<>> /\ auto_tab_order = <<>>) =>
            /\ fc_slot = None
            /\ fc_returned = <<TRUE>>
            /\ fc_delivered = <<>>
        /\ OrderUsed # <<>> =>
            LET gains == Asks("on_gain_focus")
            IN  /\ \A i \in 1..Len(gains) : gains[i].to = Circular(OrderUsed, StartOf(OrderUsed), i)
                /\ (fc_slot_before \in fc_alive /\ ~Refused(fc_delivered[1])) => gains # <<>>
                /\ fc_slot_before \notin fc_alive => gains # <<>>

\* Both orders hold live widgets, the manual order a widget the automatic order
\* lacks: that widget got the focus.
C16_Witness ==
    /\ CirculateRan
    /\ auto_tab_order # <<>>
    /\ manual_tab_order # <<>>
    /\ fc_slot \in Range(manual_tab_order)
    /\ fc_slot \notin Range(auto_tab_order)
    /\ fc_slot # fc_slot_before
    /\ fc_returned = <<TRUE>>

(***************************************************************************)
(* C17: when the focused widget (if any) yields, circulate_focus offers    *)
(* focus to the candidates of the active order in circular order from      *)
(* index (i+1) mod len, i the focused widget's index in the order, or from *)
(* index 0 when no live widget is focused or it is not in the order; the   *)
(* first candidate on which no gain-focus listener returns false, a        *)
(* candidate without gain-focus listeners included, becomes the slot, no   *)
(* later candidate is asked, and the call returns true.                    *)
(***************************************************************************)
C17_FirstAcceptingCandidate ==
    LET gains == Asks("on_gain_focus")
        n == Len(gains)
    IN  (CirculateRan /\ gains # <<>>) =>
            /\ \A k \in 1..n : gains[k].to = Circular(OrderUsed, StartOf(OrderUsed), k)
            /\ \A k \in 1..(n - 1) : Refused(gains[k])
            /\ ~Refused(gains[n]) =>
                /\ fc_slot = gains[n].to
                /\ fc_returned = <<TRUE>>
            /\ fc_returned = <<TRUE>> => ~Refused(gains[n])
            /\ fc_delivered[Len(fc_delivered)] = gains[n]

\* The focused widget is second of three in the manual order; the third refused,
\* and the first, a widget without gain-focus listeners, got the focus.
C17_Witness ==
    /\ CirculateRan
    /\ Len(manual_tab_order) = 3
    /\ fc_slot_before = manual_tab_order[2]
    /\ Len(Asks("on_gain_focus")) = 2
    /\ fc_slot = manual_tab_order[1]
    /\ fc_gain[fc_slot] = <<>>
    /\ fc_returned = <<TRUE>>

(***************************************************************************)
(* C18: circulate_focus terminates: it broadcasts gain-focus at most once  *)
(* per entry of the active order, and if every candidate refuses it        *)
(* returns false with the slot still on the widget that held it before,    *)
(* which has already received its lose-focus broadcast.                    *)
(***************************************************************************)
C18_WalkEndsAfterOneRound ==
    LET gains == Asks("on_gain_focus")
    IN  CirculateRan =>
            /\ Len(gains) <= Len(OrderUsed)
            /\ Len(Asks("on_lose_focus")) <= 1
            /\ (gains # <<>> /\ \A k \in 1..Len(gains) : Refused(gains[k])) =>
                /\ Len(gains) = Len(OrderUsed)
                /\ fc_returned = <<FALSE>>
                /\ fc_slot = fc_slot_before
                /\ fc_slot_before \in fc_alive =>
                    /\ fc_delivered[1].ev = "on_lose_focus"
                    /\ fc_delivered[1].to = fc_slot_before

\* Three candidates, the focused Button among them, all refused: the call returned
\* false, and the Button keeps the slot though it lost its focused flag.
C18_Witness ==
    /\ CirculateRan
    /\ Len(OrderUsed) = 3
    /\ Len(Asks("on_gain_focus")) = 3
    /\ fc_returned = <<FALSE>>
    /\ fc_slot_before \in Buttons \cap fc_alive
    /\ fc_slot = fc_slot_before
    /\ ~fc_focused[fc_slot]

(***************************************************************************)
(* C19: with a fixed active order of n live widgets that all accept focus  *)
(* and never veto losing it, n consecutive circulate_focus calls each      *)
(* return true and move the slot to the next widget of the order, wrapping *)
(* from the last to the first: every widget of the order holds the focus   *)
(* exactly once in n calls.  This holds when, in addition, the widget that *)
(* holds the focus before the first of the calls is dead, absent or does   *)
(* not veto (C19_FocusCycles); as stated, for any holder, it fails         *)
(* (C19_AsStated): a live holder outside the order can veto.               *)
(***************************************************************************)
\* Widget w accepts focus and does not veto losing it.
Willing(w) ==
    /\ "refuse" \notin Range(fc_gain[w])
    /\ "button" \in Range(fc_gain[w]) => fc_enabled[w]
    /\ "veto" \notin Range(fc_lose[w])

\* The latest n entries of the run of consecutive calls.
LastCalls(n) == SubSeq(fc_run, Len(fc_run) - n + 1, Len(fc_run))

\* n consecutive calls were made over the order used, whose widgets are all willing.
CycleRan ==
    /\ CirculateRan
    /\ Len(OrderUsed) >= 1
    /\ Len(fc_run) >= Len(OrderUsed)
    /\ \A w \in Range(OrderUsed) : Willing(w)

\* The latest n calls returned true, each moved the slot to the successor of the
\* slot the call before left, and each widget of the order held the slot once.
CycledOnce ==
    LET order == OrderUsed
        n == Len(order)
        calls == LastCalls(n)
    IN  /\ \A k \in 1..n : calls[k].returned
        /\ \A k \in 1..(n - 1) :
            \E i \in 1..n : calls[k].slot = order[i] /\ calls[k + 1].slot = order[(i % n) + 1]
        /\ \A w \in Range(order) : Cardinality({k \in 1..n : calls[k].slot = w}) = 1

\* The widget holding the focus before the first of the latest n calls does not veto.
HolderYields ==
    LET first == LastCalls(Len(OrderUsed))[1].before
    IN  first \in fc_alive => "veto" \notin Range(fc_lose[first])

C19_FocusCycles == (CycleRan /\ HolderYields) => CycledOnce

C19_AsStated == CycleRan => CycledOnce

\* Three calls in a row over a manual order of three willing widgets, the last of
\* them wrapping from the third entry to the first.
C19_Witness ==
    /\ CycleRan
    /\ HolderYields
    /\ Len(manual_tab_order) = 3
    /\ Len(fc_run) = 3
    /\ fc_slot_before = manual_tab_order[3]
    /\ fc_slot = manual_tab_order[1]

(***************************************************************************)
(* C20: the process-wide key handlers deliver a key-down of Tab to no      *)
(* widget's key-down event and run circulate_focus instead; every other    *)
(* key-down and every key-up is broadcast exactly once on the widget the   *)
(* slot refers to and on no other widget; when the slot is empty or its    *)
(* widget was destroyed the key event does nothing.                        *)
(***************************************************************************)
C20_KeysFollowFocus ==
    /\ (fc_op = "on_key_down" /\ fc_arg = <<"Tab">>) =>
        /\ CirculateRan
        /\ Asks("on_key_down") = <<>>
    /\ (fc_op \in {"on_key_down", "on_key_up"} /\ ~(fc_op = "on_key_down" /\ fc_arg = <<"Tab">>)) =>
        /\ ~CirculateRan
        /\ fc_slot = fc_slot_before
        /\ fc_slot \in fc_alive => fc_delivered = <<[to |-> fc_slot, ev |-> fc_op, results |-> <<>>]>>
        /\ fc_slot \notin fc_alive => fc_delivered = <<>>

\* A key-down of Tab moved the focus from one live widget to another and reached
\* no widget's key-down event.
C20_Witness ==
    /\ fc_op = "on_key_down"
    /\ fc_arg = <<"Tab">>
    /\ fc_slot_before \in fc_alive
    /\ fc_slot \in fc_alive
    /\ fc_slot # fc_slot_before
    /\ fc_returned = <<TRUE>>
    /\ Asks("on_key_down") = <<>>

\* A key-up of Tab was forwarded to the focused live widget.
C20_TabUpForwarded ==
    /\ fc_op = "on_key_up"
    /\ fc_arg = <<"Tab">>
    /\ fc_slot \in fc_alive
    /\ Len(fc_delivered) = 1

\* A key-down other than Tab found the focused widget destroyed and did nothing.
C20_DeadFocusIgnored ==
    /\ fc_op = "on_key_down"
    /\ fc_arg # <<"Tab">>
    /\ fc_slot # None
    /\ fc_slot \notin fc_alive
    /\ fc_delivered = <<>>

\* Both tab orders were empty after the purge: the slot was emptied.
C16_BothEmpty ==
    /\ CirculateRan
    /\ manual_tab_order = <<>>
    /\ auto_tab_order = <<>>
    /\ fc_slot_before # None
    /\ fc_slot = None

(***************************************************************************)
(* C23: after unsubscribe(token) the listener with that token is no longer *)
(* invoked, and later broadcasts invoke the remaining listeners in the     *)
(* relative order in which they were subscribed.                           *)
(***************************************************************************)
C23_UnsubscribeKeepsOrder ==
    ev_op = "broadcast" =>
        ev_calls = [i \in 1..Len(ev_sub_order) |-> ev_sub_order[i].id]

(***************************************************************************)
(* C24: each of none_true, none_false, any_true and any_false performs one *)
(* full broadcast in which every subscribed listener runs exactly once,    *)
(* with no stop at the first deciding result, and returns its quantifier   *)
(* over the results; with no listener none_true and none_false return true *)
(* and any_true and any_false return false.                                *)
(***************************************************************************)
C24_QueriesBroadcastFully ==
    ev_op \in Queries =>
        LET trues == {i \in 1..Len(ev_listeners) : ev_listeners[i].ret}
            falses == {i \in 1..Len(ev_listeners) : ~ev_listeners[i].ret}
        IN  /\ ev_calls = [i \in 1..Len(ev_listeners) |-> ev_listeners[i].id]
            /\ ev_results = [i \in 1..Len(ev_listeners) |-> ev_listeners[i].ret]
            /\ ev_op = "none_true" => ev_answer = <<trues = {}>>
            /\ ev_op = "none_false" => ev_answer = <<falses = {}>>
            /\ ev_op = "any_true" => ev_answer = <<trues # {}>>
            /\ ev_op = "any_false" => ev_answer = <<falses # {}>>
            /\ ev_listeners = <<>> => ev_answer = <<ev_op \in {"none_true", "none_false"}>>

\* any_true over three listeners of which the first answers true: the two after
\* it ran all the same.
C24_Witness ==
    /\ ev_op = "any_true"
    /\ Len(ev_listeners) = 3
    /\ ev_listeners[1].ret
    /\ ~ev_listeners[2].ret
    /\ Len(ev_calls) = 3
    /\ ev_answer = <<TRUE>>

\* none_false on an event without listeners answered true.
C24_NoListener ==
    /\ ev_op = "none_false"
    /\ ev_listeners = <<>>
    /\ ev_answer = <<TRUE>>

(***************************************************************************)
(* C21: consolidating a list of batches B1, ..., Bn (batch.rs) yields one  *)
(* new batch whose operations are those of B1, then B2, ..., then Bn, each *)
(* in its order, none dropped, duplicated or reordered; consolidating an   *)
(* empty list yields an empty batch.                                       *)
(***************************************************************************)
\* The operations the batches handed to the last call held as it began.
InputOps == [i \in 1..Len(ba_inputs) |-> ba_before[ba_inputs[i]]]

C21_ConsolidateConcatenates ==
    (ba_op = "consolidate" /\ ba_module = "batch") =>
        /\ ba_result \notin Range(ba_inputs)
        /\ ba_before[ba_result] = <<>>
        /\ IsConsolidationOf(ba_heap[ba_result], InputOps)
        /\ ba_inputs = <<>> => ba_heap[ba_result] = <<>>

\* Three batches of one operation each, the operations distinct, consolidated in
\* an order other than that of their creation.
C21_Witness ==
    /\ ba_op = "consolidate"
    /\ ba_module = "batch"
    /\ Len(ba_inputs) = 3
    /\ \A i \in 1..3 : Len(ba_before[ba_inputs[i]]) = 1
    /\ ba_heap[ba_result] = <<2, 1, 3>>

\* An empty list was consolidated into an empty batch.
C21_EmptyList ==
    /\ ba_op = "consolidate"
    /\ ba_module = "batch"
    /\ ba_inputs = <<>>
    /\ ba_heap[ba_result] = <<>>

(***************************************************************************)
(* C30: consolidating a list of batches, and appending one batch to        *)
(* another, leaves the operations of every input batch unchanged, so a     *)
(* batch handed to several consumers still holds all of its operations     *)
(* after one of them consolidated it.                                      *)
(***************************************************************************)
C30_InputsUnchanged ==
    ba_op \in {"consolidate", "append"} =>
        \A i \in 1..Len(ba_inputs) : ba_heap[ba_inputs[i]] = ba_before[ba_inputs[i]]

(***************************************************************************)
(* C28: between input events, after any sequence of pointer events,        *)
(* child-list mutations and child position or size changes, every widget   *)
(* in the layout's hover set is a current child of the layout whose        *)
(* rectangle contains the last pointer position.                           *)
(***************************************************************************)
C28_HoverSetCurrent ==
    ~ly_panicked =>
        \A i \in 1..Len(ly_cur_hov) :
            /\ ContainsRef(ly_children, ly_cur_hov[i])
            /\ UnderPointer(ly_cur_hov[i], ly_cur_pos)

(***************************************************************************)
(* C27: the tab-order lists and the focused-widget slot never keep a       *)
(* widget alive; circulate_focus removes every destroyed widget from both  *)
(* tab-order lists before it chooses the active order, never broadcasts on *)
(* or assigns focus to a destroyed widget, and treats a manual list whose  *)
(* entries are all destroyed as empty, falling back to the automatic list. *)
(***************************************************************************)
\* The manual list was not empty as the last circulate_focus began, and every
\* entry of it was destroyed.
ManualAllDead == fc_manual_before # <<>> /\ Range(fc_manual_before) \cap fc_alive = {}

C27_DeadWidgetsPurged ==
    /\ \A w \in fc_alive : ENABLED Destroy(w)
    /\ CirculateRan =>
        /\ Range(manual_tab_order) = Range(fc_manual_before) \cap fc_alive
        /\ Range(auto_tab_order) \subseteq fc_alive
        /\ \A i \in 1..Len(fc_delivered) : fc_delivered[i].to \in fc_alive
        /\ fc_slot # fc_slot_before => fc_slot \in fc_alive \cup {None}
        /\ ManualAllDead =>
            /\ manual_tab_order = <<>>
            /\ \A i \in 1..Len(Asks("on_gain_focus")) :
                   Asks("on_gain_focus")[i].to \in Range(auto_tab_order)
            /\ (fc_slot # fc_slot_before /\ fc_slot # None) => fc_slot \in Range(auto_tab_order)

\* The manual list held only destroyed widgets, one of them in the slot, and focus
\* went to a widget of the automatic list.
C27_Witness ==
    /\ CirculateRan
    /\ ManualAllDead
    /\ fc_slot_before \in Range(fc_manual_before)
    /\ fc_slot # fc_slot_before
    /\ fc_slot \in Range(auto_tab_order)
    /\ fc_returned = <<TRUE>>

\* Some entries of the manual list were destroyed, and the walk went on in the rest.
C27_PartlyDead ==
    /\ CirculateRan
    /\ Len(manual_tab_order) < Len(fc_manual_before)
    /\ manual_tab_order # <<>>
    /\ fc_slot \in Range(manual_tab_order)
    /\ fc_slot # fc_slot_before

(***************************************************************************)
(* C22: a layout's draw handler broadcasts draw on each child exactly      *)
(* once, in children-list order, and returns a batch holding one nested-   *)
(* batch operation per batch a child returned, ordered by child index and  *)
(* then by that child's listener order, each with a transform whose        *)
(* translation is the child's position and whose clip size is its size.    *)
(***************************************************************************)
\* The index of widget c in the children list.
ChildIndex(c) == CHOOSE i \in 1..Len(ly_children) : ly_children[i] = c

C22_LayoutDrawNestsChildren ==
    ly_op = "on_draw" =>
        /\ [i \in 1..Len(ly_delivered) |-> ly_delivered[i].to] = ly_children
        /\ \A i \in 1..Len(ly_delivered) : ly_delivered[i].ev = "on_draw"
        /\ \A p \in 1..Len(dr_batch) :
               LET c == dr_batch[p].batch.of
               IN  /\ ContainsRef(ly_children, c)
                   /\ dr_batch[p].batch.listener \in 1..dr_listeners[c]
                   /\ dr_batch[p].transform.translate = ly_position[c]
                   /\ dr_batch[p].transform.clip_size = <<ly_size[c]>>
        /\ \A i \in 1..Len(ly_children) : \A k \in 1..dr_listeners[ly_children[i]] :
               Cardinality({p \in 1..Len(dr_batch) :
                               dr_batch[p].batch = Entry(ly_children[i], k)}) = 1
        /\ \A p \in 1..Len(dr_batch) : \A q \in (p + 1)..Len(dr_batch) :
               LET i == ChildIndex(dr_batch[p].batch.of)
                   j == ChildIndex(dr_batch[q].batch.of)
               IN  \/ i < j
                   \/ i = j /\ dr_batch[p].batch.listener < dr_batch[q].batch.listener

\* Two children at different positions with different sizes, the first with two
\* draw listeners, the second with one, the second created before the first.
C22_Witness ==
    /\ ly_op = "on_draw"
    /\ ly_children = <<2, 1>>
    /\ dr_listeners[2] = 2
    /\ dr_listeners[1] = 1
    /\ ly_position[1] # ly_position[2]
    /\ ly_size[1] # ly_size[2]
    /\ ly_size[1] # ly_position[1]
    /\ Len(dr_batch) = 3
    /\ dr_batch[3].batch = Entry(1, 1)

\* A child without a draw listener is asked, and adds nothing.
C22_SilentChild ==
    /\ ly_op = "on_draw"
    /\ Len(ly_children) = 2
    /\ dr_listeners[ly_children[1]] = 0
    /\ Len(ly_delivered) = 2
    /\ Len(dr_batch) = 1

(***************************************************************************)
(* C26: a primary-button press on a text field sets the focused-widget     *)
(* slot to the text field when the text field is enabled, and leaves the   *)
(* slot unchanged when it is disabled.                                     *)
(***************************************************************************)
C26_TextFieldPressTakesFocus ==
    tf_op = "on_primary_down" =>
        /\ tf_enabled => tf_slot = Self
        /\ ~tf_enabled => tf_slot = tf_slot_before

\* A disabled text field was pressed while another widget held the slot.
C26_Witness ==
    /\ tf_op = "on_primary_down"
    /\ ~tf_enabled
    /\ tf_slot_before = Other
    /\ tf_slot = Other

\* An enabled text field was pressed and took the slot from another widget.
C26_TakesSlot ==
    /\ tf_op = "on_primary_down"
    /\ tf_enabled
    /\ ~tf_widget_enabled
    /\ tf_slot_before = Other
    /\ tf_slot = Self

(***************************************************************************)
(* C25: get_as::<T>() on a widget's dynamic payload property returns a     *)
(* view of the payload exactly when a payload is present and its concrete  *)
(* type is T; when no payload is installed or its type differs it returns  *)
(* an empty result, never a fatal failure; in all cases it leaves the      *)
(* payload unchanged.                                                      *)
(***************************************************************************)
\* The last get_as was asked for the type of the payload installed.
AskedPresentType == dy_before # NoArg /\ dy_asked = <<dy_before[1].type>>

\* What get_as answers when it returns.
C25_GetAsAnswer ==
    (dy_op = "get_as" /\ ~dy_panicked) =>
        /\ AskedPresentType => dy_result = <<dy_before[1].value>>
        /\ ~AskedPresentType => dy_result = NoArg
        /\ dy_payload = dy_before

C25_GetAsNeverFails ==
    dy_op = "get_as" =>
        /\ ~dy_panicked
        /\ C25_GetAsAnswer
        /\ dy_payload = dy_before

\* get_as was asked for another type than the payload's, and answered empty.
C25_Mismatch ==
    /\ dy_op = "get_as"
    /\ ~dy_panicked
    /\ dy_before # NoArg
    /\ ~AskedPresentType
    /\ dy_result = NoArg

(***************************************************************************)
(* C29: the move broadcast a layout sends to an already-hovered child      *)
(* carries the pointer position translated into the child's coordinate     *)
(* space: the integer pointer position minus the child's position          *)
(* truncated toward zero to integers, component-wise.                      *)
(***************************************************************************)
Abs(n) == IF n >= 0 THEN n ELSE 0 - n

\* Integer t is scalar v (in units of 1/Scale) truncated toward zero: of the sign
\* of v, and the largest magnitude not above that of v.
IsTruncationOf(t, v) ==
    /\ t * v >= 0
    /\ Abs(t) * Scale <= Abs(v)
    /\ Abs(v) < (Abs(t) + 1) * Scale

\* The move broadcasts of the last handler.
Moves == SelectSeq(ly_delivered, LAMBDA d : d.ev = "on_mouse_move")

C29_MoveIsChildLocal ==
    ly_op = "on_mouse_move" =>
        \A i \in 1..Len(Moves) :
            LET c == Moves[i].to
                local == Moves[i].arg[1]
            IN  /\ ContainsRef(ly_hov_before, c)
                /\ IsTruncationOf(ly_cur_pos.x - local.x, ly_position[c].x)
                /\ IsTruncationOf(ly_cur_pos.y - local.y, ly_position[c].y)

\* A hovered child at a negative fractional position (-1/2, -3/2) was sent a move.
C29_Witness ==
    /\ ly_op = "on_mouse_move"
    /\ Len(Moves) = 1
    /\ ly_position[Moves[1].to] = Pair(0 - 1, 0 - 3)
    /\ ly_cur_pos = Pair(0, 0 - 1)
    /\ Moves[1].arg = <<Pair(0, 0)>>

(***************************************************************************)
(* C31: after any sequence of pointer events, key events and               *)
(* circulate_focus calls over a set of Buttons, at most one Button has its *)
(* focused flag set to true.                                               *)
(***************************************************************************)
\* The live Buttons whose focused flag is true.
FocusedButtons == {w \in LiveButtons : fc_focused[w]}

C31_AtMostOneFocusedButton == Cardinality(FocusedButtons) <= 1

(***************************************************************************)
(* C32: between input events, a Button's focused flag is true if and only  *)
(* if the process-wide focused-widget slot refers to that Button; in       *)
(* particular after a primary-down on the Button, after a vetoed           *)
(* circulate_focus, and after a circulate_focus in which every candidate   *)
(* refused.                                                                *)
(***************************************************************************)
C32_FocusedFlagMatchesSlot ==
    \A w \in LiveButtons : fc_focused[w] <=> fc_slot = w

(***************************************************************************)
(* C33: within the handling of a single pointer move by a layout, all      *)
(* enter and move broadcasts to children that contain the point are        *)
(* delivered, in child-list order, before any leave broadcast to a child   *)
(* that no longer contains it; so when the pointer passes from child A     *)
(* directly onto child B, B's enter is delivered before A's leave.         *)
(***************************************************************************)
\* The enter and move broadcasts of the last handler, and its leave broadcasts.
Hits == SelectSeq(ly_delivered, LAMBDA d : d.ev \in {"on_mouse_enter", "on_mouse_move"})
Leaves == SelectSeq(ly_delivered, LAMBDA d : d.ev = "on_mouse_leave")

C33_HitsBeforeLeaves ==
    ly_op = "on_mouse_move" =>
        /\ ly_delivered = Hits \o Leaves
        /\ [i \in 1..Len(Hits) |-> Hits[i].to]
               = SelectSeq(ly_children, LAMBDA c : UnderPointer(c, ly_cur_pos))
        /\ \A i \in 1..Len(Leaves) :
               /\ ContainsRef(ly_hov_before, Leaves[i].to)
               /\ ~(ContainsRef(ly_children, Leaves[i].to)
                      /\ UnderPointer(Leaves[i].to, ly_cur_pos))

\* The pointer went from the first child straight onto the second: the second
\* child's enter, then the first child's leave.
C33_Witness ==
    /\ ly_op = "on_mouse_move"
    /\ Len(ly_children) = 2
    /\ ly_hov_before = <<ly_children[1]>>
    /\ ly_delivered = <<Delivery(ly_children[2], "on_mouse_enter", NoArg),
                        Delivery(ly_children[1], "on_mouse_leave", NoArg)>>

(***************************************************************************)
(* C34: for a layout nested as a child of another layout, the pointer move *)
(* on which the pointer first enters the inner layout's rectangle delivers *)
(* only an enter broadcast to the inner layout and leaves the inner        *)
(* layout's hover set unchanged; a primary-down arriving before any        *)
(* further pointer move is forwarded to the inner layout but reaches none  *)
(* of the inner layout's children.                                         *)
(***************************************************************************)
\* The last handler was the pointer move on which the pointer entered the inner
\* layout.
EnteringMove == ne_op = "on_mouse_move" /\ ne_fresh

C34_EnterDoesNotHitTest ==
    /\ EnteringMove =>
        /\ ne_to_inner = <<Delivery(InnerLayout, "on_mouse_enter", NoArg)>>
        /\ ne_inner_hov = ne_inner_before
        /\ ne_to_child = <<>>
    /\ (ne_op = "on_primary_down" /\ ne_fresh) =>
        /\ ne_to_inner = <<Delivery(InnerLayout, "on_primary_down", NoArg)>>
        /\ ne_to_child = <<>>

\* The pointer entered the inner layout over its child and the press came next: the
\* inner layout was sent the press, its child nothing.
C34_Witness ==
    /\ ne_op = "on_primary_down"
    /\ ne_fresh
    /\ ne_size[InnerLayout] = Pair(Scale, Scale)
    /\ ne_size[InnerChild] = Pair(Scale, Scale)
    /\ ne_position[InnerChild] = Pair(0, 0)
    /\ ne_position[InnerLayout] = Pair(0, 0)
    /\ ne_outer_hov = <<InnerLayout>>
    /\ ne_to_inner # <<>>
    /\ ne_to_child = <<>>

\* After a second pointer move inside the inner layout, the press reaches the child.
C34_SecondMoveHits ==
    /\ ne_op = "on_primary_down"
    /\ ~ne_fresh
    /\ ne_to_child = <<Delivery(InnerChild, "on_primary_down", NoArg)>>

(***************************************************************************)
(* C35: circulate_focus holds the focused-widget slot and both tab-order   *)
(* lists exclusively borrowed while it runs lose-focus and gain-focus      *)
(* listeners, so a listener invoked during the traversal that reads or     *)
(* sets the slot, registers a widget in the automatic tab order, or calls  *)
(* circulate_focus again causes a fatal borrow failure instead of          *)
(* completing.                                                             *)
(***************************************************************************)
C35_ListenerCallsFail ==
    /\ re_pc \in {"lose", "gain"} => re_borrowed = Cells
    /\ (re_from \in {"lose", "gain"} /\ re_attempt # <<>> /\ re_attempt[1] \in CallingKinds) =>
           re_pc = "panicked"

\* A gain-focus listener read the slot during the traversal, and the thread
\* panicked.
C35_Witness ==
    /\ re_from = "gain"
    /\ re_attempt = <<"read_slot">>
    /\ re_pc = "panicked"

\* A lose-focus listener called circulate_focus again, and the thread panicked.
C35_Reentered ==
    /\ re_from = "lose"
    /\ re_attempt = <<"circulate">>
    /\ re_pc = "panicked"

\* A listener registered a widget, as Button::create does, and the thread panicked.
C35_Registered ==
    /\ re_from \in {"lose", "gain"}
    /\ re_attempt = <<"register">>
    /\ re_pc = "panicked"

\* A listener set the slot, as a Button's on_primary_down does, and the thread
\* panicked.
C35_SlotSet ==
    /\ re_from \in {"lose", "gain"}
    /\ re_attempt = <<"set_slot">>
    /\ re_pc = "panicked"

(***************************************************************************)
(* C36: in the dispatcher thread pool, under every interleaving of push    *)
(* calls and worker threads, each pushed task is removed from the shared   *)
(* queue by exactly one worker and run at most once, and tasks leave the   *)
(* queue in the order in which they were pushed.                           *)
(***************************************************************************)
C36_PoppedOnceInOrder ==
    /\ di_popped = [i \in 1..Len(di_popped) |-> i]
    /\ Len(di_popped) <= di_pushed
    /\ \A t \in Tasks : di_ran[t] <= 1
    /\ \A t \in Tasks : di_ran[t] > 0 => t \in Range(di_popped)

\* Both tasks were popped, by different workers, which run them.
C36_Witness ==
    /\ di_popped = <<1, 2>>
    /\ \E w \in Workers : di_pc[w] = "run" /\ di_task[w] = 1
    /\ \E w \in Workers : di_pc[w] = "run" /\ di_task[w] = 2

\* Both tasks were popped and run.
C36_BothRan == di_popped = <<1, 2>> /\ \A t \in Tasks : di_ran[t] = 1

(***************************************************************************)
(* C37: as long as shutdown is not called, every task pushed to the        *)
(* dispatcher is eventually run by some worker under fair scheduling       *)
(* whenever running tasks terminate: no wake-up is lost between a push and *)
(* a worker blocked waiting on the empty queue, and a worker never stays   *)
(* blocked while the queue is non-empty.                                   *)
(***************************************************************************)
ShutdownCalled == di_shutdown # "idle"

C37_PushedIsRun ==
    /\ \A t \in Tasks : (di_pushed >= t) ~> (di_ran[t] > 0 \/ ShutdownCalled)
    /\ (di_waiting # {} /\ di_deque # <<>>) ~> (di_waiting = {} \/ di_deque = <<>> \/ ShutdownCalled)

\* Every task was pushed and run, the workers block again, no shutdown.
C37_Witness ==
    /\ ~ShutdownCalled
    /\ \A t \in Tasks : di_ran[t] > 0
    /\ di_waiting = Workers

\* A task is queued while every worker is blocked and none was notified yet.
C37_PushedToBlocked ==
    /\ ~ShutdownCalled
    /\ di_waiting = Workers
    /\ di_deque # <<>>

(***************************************************************************)
(* C38: after Dispatcher::shutdown is called, every worker thread          *)
(* eventually leaves its loop and terminates, whether it was blocked       *)
(* waiting on the empty queue, about to wait, or running a task at the     *)
(* moment of shutdown (given that the task it is running terminates).      *)
(***************************************************************************)
AllTerminated == \A w \in Workers : di_pc[w] = "done"

C38_ShutdownTerminates == ShutdownCalled ~> AllTerminated

\* Every worker terminated; as shutdown was called one was blocked, the other
\* was running a task.
C38_Witness ==
    /\ AllTerminated
    /\ di_at_shutdown # <<>>
    /\ \E w \in Workers : di_at_shutdown[1][w] = "wait"
    /\ \E w \in Workers : di_at_shutdown[1][w] = "run"

\* Every worker terminated; as shutdown was called one was about to wait.
C38_AboutToWait ==
    /\ AllTerminated
    /\ di_at_shutdown # <<>>
    /\ di_deque = <<>>
    /\ \E w \in Workers : di_at_shutdown[1][w] = "pop"

(***************************************************************************)
(* C39: while the scheduler is running, a task deployed with delay d is    *)
(* pushed to the dispatcher queue exactly once, never before d has elapsed *)
(* since its deployment, and at the first poll at which d has elapsed;     *)
(* tasks whose delay has not elapsed stay in the scheduler's list and are  *)
(* not skipped when an earlier task in the list is promoted in the same    *)
(* poll.                                                                   *)
(***************************************************************************)
Listed == {sc_tasks[k].id : k \in 1..Len(sc_tasks)}
PushedIds == {sc_pushed[k].task.id : k \in 1..Len(sc_pushed)}
Deployed == 1..sc_deployed

\* No task is pushed twice, a deployed task is in the list until it is pushed, every
\* push came with the delay elapsed, and a task that a finished traversal leaves in
\* the list was tested in that traversal, with its delay not elapsed.
PollsPromoteTheReady ==
    /\ \A j, k \in 1..Len(sc_pushed) : sc_pushed[j].task.id = sc_pushed[k].task.id => j = k
    /\ Listed \cap PushedIds = {}
    /\ Listed \cup PushedIds = Deployed
    /\ \A k \in 1..Len(sc_pushed) :
           sc_pushed[k].at - sc_pushed[k].task.deploy_instant >= sc_pushed[k].task.delay
    /\ sc_pc # "traverse" =>
           \A k \in 1..Len(sc_tasks) :
               sc_tasks[k].id \in sc_at_start =>
                   /\ sc_checked[sc_tasks[k].id] # <<>>
                   /\ ~IsReady(sc_tasks[k], sc_checked[sc_tasks[k].id][1])

C39_DeployedIsPushedOnce ==
    /\ []PollsPromoteTheReady
    /\ \A id \in DelayedIds : (id \in Deployed) ~> (id \in PushedIds \/ ~sc_state)

\* A traversal promoted the first task of the list and left the second, whose
\* delay had not elapsed, in the list; both were deployed together.
C39_Witness ==
    /\ sc_pc = "sleep"
    /\ sc_at_start = {1, 2}
    /\ PushedIds = {1}
    /\ Listed = {2}
    /\ sc_checked[2] # <<>>

\* One traversal promoted two tasks, one after the other.
C39_BothPromoted ==
    /\ sc_pc = "sleep"
    /\ sc_at_start = {1, 2}
    /\ PushedIds = {1, 2}
    /\ sc_checked[1] # <<>>
    /\ sc_checked[2] # <<>>

(***************************************************************************)
(* C40: for all regions a and b with positive integer sizes on a bounded   *)
(* grid, Region::intersects(a, b) returns true if and only if the          *)
(* half-open rectangles a and b share at least one point, and the result   *)
(* is the same for intersects(b, a).                                       *)
(***************************************************************************)
\* The points of the half-open rectangle of a region.
PointsOf(region) ==
    {Pair(x, y) : x \in region.origin.x..(region.origin.x + region.size.x - 1),
                  y \in region.origin.y..(region.origin.y + region.size.y - 1)}

SharePoint(a, b) == PointsOf(a) \cap PointsOf(b) # {}

C40_IntersectsIffSharePoint ==
    rg_result # <<>> =>
        /\ rg_result[1] <=> SharePoint(rg_a, rg_b)
        /\ rg_result[1] = rg_result[2]

\* The two calls agree, and regions that share a point are never told apart.
C40_SymmetricAndCorners ==
    rg_result # <<>> =>
        /\ rg_result[1] = rg_result[2]
        /\ Contains(rg_a, rg_b.origin) => rg_result[1] /\ SharePoint(rg_a, rg_b)

\* A wide and a tall region cross, no corner of one inside the other: false.
C40_CrossMissed ==
    /\ rg_result = <<FALSE, FALSE>>
    /\ SharePoint(rg_a, rg_b)

\* Two regions touch at one corner only: true.
C40_TouchCounted ==
    /\ rg_result = <<TRUE, TRUE>>
    /\ ~SharePoint(rg_a, rg_b)

====
